---- MODULE Spec2Model ----
(***************************************************************************)
(* Proof-of-reserves pipeline of otter-sec/por_v2: the batch circuit, the  *)
(* recursive circuit, the circuit registry, the Merkle tree, prove_global, *)
(* prove_user_inclusion, the verifier, the sign gadgets,                   *)
(* prove_inclusion_all_batched and the daemon of server.rs.                *)
(*                                                                         *)
(* Scale.  TLC's integers are 32 bits wide, so the model keeps the shape   *)
(* of the arithmetic at a word width of 8 bits instead of 64:              *)
(*   u64 -> 0 .. 2^8 - 1,  i64 -> -2^7 .. 2^7 - 1,                         *)
(*   Goldilocks order 2^64 - 2^32 + 1 -> 2^8 - 2^4 + 1 = 241 (a prime),    *)
(*   range_check(equity, 62) -> 6 bits (word width minus 2),               *)
(*   BATCH_SIZE 512 -> 2, RECURSIVE_SIZE 8 -> 2 (BATCH_SIZE >=             *)
(*   RECURSIVE_SIZE is kept).                                              *)
(* Poseidon is modelled as an injective constructor over its input list    *)
(* (no collisions); a proof object exists only when its circuit's          *)
(* constraints are satisfied by the witness (the SNARK is sound and        *)
(* complete) and names the circuit it was made for.                        *)
(* A circuit's digest is modelled as the circuit's name: its kind, its     *)
(* sizes, its asset count and its inner circuit, so that the circuits of   *)
(* different levels have different digests.                                *)
(* Release build: debug_assert! in from_canonical_u64 is compiled out.     *)
(***************************************************************************)
EXTENDS Integers, Sequences, FiniteSets, TLC

\* ---------------------------------------------------------------- config
BATCH_SIZE == 2
RECURSIVE_SIZE == 2
\* width of u64 / i64 in the model
WordBits == 8
\* F::ORDER (Goldilocks), at the model's word width
ORDER == 241
\* builder.range_check(account.equity, 62), at the model's word width
EquityBits == 6
\* the constant of is_negative: 9223372034707292161 = (ORDER + 1) / 2
min_neg == 121

RECURSIVE Pow(_, _)
Pow(b, e) == IF e = 0 THEN 1 ELSE b * Pow(b, e - 1)

RECURSIVE ilog2(_)
ilog2(n) == IF n <= 1 THEN 0 ELSE 1 + ilog2(n \div 2)

Min(a, b) == IF a <= b THEN a ELSE b

Word == Pow(2, WordBits)
half == (ORDER - 1) \div 2
MAX_ACCOUNT_BALANCE == ((ORDER - 1) \div 2) \div BATCH_SIZE
MAX_ACCOUNT_BALANCE_BITS == ilog2(MAX_ACCOUNT_BALANCE)

\* ---------------------------------------------------------------- Option
None == <<>>
Some(x) == <<x>>
unwrap(o) == o[1]

\* ---------------------------------------------------------------- field
\* GoldilocksField::from_canonical_u64: stores n as it is; every operation
\* and comparison is modulo ORDER, so a word >= ORDER acts as n - ORDER.
from_canonical_u64(n) == n % ORDER

\* GoldilocksField::from_noncanonical_i64:
\*   from_canonical_u64(if n < 0 { ORDER.wrapping_add(n as u64) } else { n as u64 })
from_noncanonical_i64(n) ==
    from_canonical_u64(IF n < 0 THEN (ORDER + (n + Word)) % Word ELSE n)

FAdd(a, b) == (a + b) % ORDER
FSub(a, b) == (a - b + ORDER) % ORDER
FMul(a, b) == (a * b) % ORDER
\* builder.mul_add(a, b, c) = a * b + c
mul_add(a, b, c) == FAdd(FMul(a, b), c)
Inverse(y) == CHOOSE z \in 1..(ORDER - 1) : (z * y) % ORDER = 1
min_neg_inverse == Inverse(min_neg)
\* builder.div(x, y) = x * y^-1
FDiv(x, yinv) == FMul(x, yinv)

\* BoolTarget: the field elements 0 and 1
is_equal(x, y) == IF x = y THEN 1 ELSE 0
and(a, b) == FMul(a, b)
not(b) == FSub(1, b)
\* builder.assert_bool(b): the constraint b * b - b = 0
assert_bool(b) == FSub(FMul(b, b), b) = 0
\* builder.range_check(x, n_log): x is the sum of n_log bits
range_check(x, n_log) == x < Pow(2, n_log)

\* src/utils/circuit_helper.rs
is_negative(x) == is_equal(FDiv(x, min_neg_inverse), 1)
is_positive(x) == not(is_negative(x))

\* ---------------------------------------------------------------- hashes
\* HashOut<F>: four field elements.  A Poseidon output is named by the input
\* list it was computed from; HashOut::default() is four zeros.  The byte
\* form of a hash (to_bytes / from_bytes, 4 little-endian words) is the same
\* four elements.
DefaultHash == [kind |-> "zero", pre |-> <<>>]
\* the four elements of a HashOut, as they appear in public inputs
elements(h) == [k \in 1..4 |-> [h |-> h, k |-> k - 1]]
\* HashOut::from_partial(elems): the hash whose elements these are
from_partial(elems) ==
    IF Len(elems) = 4 /\ elems = elements(elems[1].h)
    THEN elems[1].h
    ELSE [kind |-> "raw", pre |-> elems]
\* pis_to_hash_bytes
pis_to_hash_bytes(pis) == from_partial(pis)

RECURSIVE Flatten(_)
Flatten(ss) == IF ss = <<>> THEN <<>> ELSE Head(ss) \o Flatten(Tail(ss))

\* PoseidonHash::hash_no_pad over field elements that are hash elements:
\* the input list is kept as the list of the hashes the elements come from
hash_no_pad(elems) ==
    [kind |-> "node",
     pre |-> [j \in 1..(Len(elems) \div 4) |-> from_partial(SubSeq(elems, 4 * j - 3, 4 * j))]]
\* PoseidonHash::hash_no_pad over plain field elements
hash_no_pad_field(inputs) == [kind |-> "leaf", pre |-> inputs]

\* hash_n_subhashes (src/utils/helper_utils.rs)
hash_n_subhashes(hashes) ==
    hash_no_pad(Flatten([i \in 1..Len(hashes) |-> elements(hashes[i])]))

\* hash_account (src/utils/helper_utils.rs): hash_input_hex is filled from
\* the userhash and never appended to hash_input
hash_account(balances, userhash, nonce) ==
    LET hash_input == [i \in 1..Len(balances) |-> from_noncanonical_i64(balances[i])]
        hash_input_hex == [i \in 1..Len(userhash) |-> from_canonical_u64(userhash[i])]
        nonce_field == from_canonical_u64(nonce)
    IN hash_no_pad_field(Append(hash_input, nonce_field))

\* ---------------------------------------------------------------- helpers
\* slice.chunks(n)
Chunks(s, n) ==
    [k \in 1..((Len(s) + n - 1) \div n) |-> SubSeq(s, (k - 1) * n + 1, Min(k * n, Len(s)))]

Repeat(x, n) == [i \in 1..n |-> x]

\* pad_accounts (src/utils/helper_utils.rs): accounts and hashes after padding
pad_accounts(accounts, hashes, asset_count, batch_size) ==
    LET hash_nibbles == Len(hashes[1])
        padding == IF Len(accounts) % batch_size # 0
                   THEN batch_size - (Len(accounts) % batch_size)
                   ELSE 0
    IN [accounts |-> accounts \o Repeat(Repeat(0, asset_count), padding),
        hashes |-> hashes \o Repeat(Repeat(0, hash_nibbles), padding)]

\* pad_recursive_proofs padding with the first proof instead of empty_proof
pad_recursive_proofs_first(proofs, empty_proof) ==
    IF Len(proofs) % RECURSIVE_SIZE # 0
    THEN proofs \o Repeat(proofs[1], RECURSIVE_SIZE - (Len(proofs) % RECURSIVE_SIZE))
    ELSE proofs

\* pad_recursive_proofs adding nothing
pad_recursive_proofs_unpadded(proofs, empty_proof) == proofs

\* pad_recursive_proofs
pad_recursive_proofs(proofs, empty_proof) ==
    IF Len(proofs) % RECURSIVE_SIZE # 0
    THEN proofs \o Repeat(empty_proof, RECURSIVE_SIZE - (Len(proofs) % RECURSIVE_SIZE))
    ELSE proofs

\* ---------------------------------------------------------------- merkle tree
\* Node (src/merkle_tree.rs): hash: Option<Vec<u8>>, children: Option<Vec<Node>>
Node_new(hash) == [hash |-> hash, children |-> None]

\* new_from_leafs making a single batch node the root
RECURSIVE new_from_leafs_single_root(_, _, _)
new_from_leafs_single_root(leafs, depth, batch) ==
    LET chunks == IF batch THEN Chunks(leafs, BATCH_SIZE) ELSE Chunks(leafs, RECURSIVE_SIZE)
        padded_nodes == IF Len(chunks) % RECURSIVE_SIZE # 0
                        THEN Repeat(Node_new(None), RECURSIVE_SIZE - (Len(chunks) % RECURSIVE_SIZE))
                        ELSE <<>>
        nodes == [k \in 1..Len(chunks) |-> [hash |-> None, children |-> Some(chunks[k])]]
    IN IF Len(nodes) = 1
       THEN [root |-> nodes[1], depth |-> depth + 1]
       ELSE new_from_leafs_single_root(nodes \o padded_nodes, depth + 1, FALSE)

\* MerkleTree::new_from_leafs
RECURSIVE new_from_leafs(_, _, _)
new_from_leafs(leafs, depth, batch) ==
    LET chunks == IF batch THEN Chunks(leafs, BATCH_SIZE) ELSE Chunks(leafs, RECURSIVE_SIZE)
        padded_nodes == IF Len(chunks) % RECURSIVE_SIZE # 0
                        THEN Repeat(Node_new(None), RECURSIVE_SIZE - (Len(chunks) % RECURSIVE_SIZE))
                        ELSE <<>>
        nodes == [k \in 1..Len(chunks) |-> [hash |-> None, children |-> Some(chunks[k])]]
    IN IF Len(nodes) = 1 /\ ~batch
       THEN [root |-> nodes[1], depth |-> depth + 1]
       ELSE new_from_leafs(nodes \o padded_nodes, depth + 1, FALSE)

\* Node::collect_nodes_at_depth_mut: the nodes of target_depth, left to right.
\* A &mut Node is modelled by the node's place: the child positions (1-based)
\* leading to it from the root.
RECURSIVE collect_nodes_at_depth_mut(_, _, _, _)
collect_nodes_at_depth_mut(node, target_depth, current_depth, place) ==
    IF current_depth = target_depth
    THEN << place >>
    ELSE IF current_depth < target_depth /\ node.children # None
         THEN LET children == unwrap(node.children)
              IN Flatten([i \in 1..Len(children) |->
                     collect_nodes_at_depth_mut(children[i], target_depth,
                                                current_depth + 1, Append(place, i))])
         ELSE <<>>

\* MerkleTree::get_nodes_from_depth
get_nodes_from_depth(tree, depth) == collect_nodes_at_depth_mut(tree.root, depth, 1, <<>>)

\* the node at a place
RECURSIVE node_at(_, _)
node_at(node, place) ==
    IF place = <<>> THEN node ELSE node_at(unwrap(node.children)[Head(place)], Tail(place))

\* Node::set_hash on the node at a place
RECURSIVE set_hash_at(_, _, _)
set_hash_at(node, place, hash) ==
    IF place = <<>>
    THEN [node EXCEPT !.hash = Some(hash)]
    ELSE [node EXCEPT !.children =
              Some([unwrap(node.children) EXCEPT ![Head(place)] = set_hash_at(@, Tail(place), hash)])]

tree_set_hash(tree, place, hash) == [tree EXCEPT !.root = set_hash_at(tree.root, place, hash)]

\* MerkleTree::verify_recursive: the children are visited and what the visit
\* returns is dropped; children without a hash are filtered out of the input
RECURSIVE verify_recursive(_)
verify_recursive(root_node) ==
    IF root_node.children = None
    THEN TRUE
    ELSE LET children == unwrap(root_node.children)
             visited == [i \in 1..Len(children) |-> verify_recursive(children[i])]
             children_hashes == Flatten([i \in 1..Len(children) |-> children[i].hash])
         IN IF root_node.hash = None
            THEN FALSE
            ELSE IF unwrap(root_node.hash) # hash_n_subhashes(children_hashes)
                 THEN FALSE
                 ELSE TRUE

\* MerkleTree::verify
verify(tree) == verify_recursive(tree.root)

\* MerkleTree::get_nth_leaf_path.  The result is [panic, path]: panic when an
\* index is out of bounds, a node without children is unwrapped or the usize
\* subtraction n - start_position underflows; path is Option<Vec<usize>>
\* (0-based indexes, as in the code).
RECURSIVE nth_leaf_walk(_, _, _, _, _, _)
nth_leaf_walk(depth, n, current_depth, current_node, start_position, path) ==
    IF current_depth >= depth
    THEN IF n < start_position
         THEN [panic |-> TRUE, path |-> None]
         ELSE LET full == Append(path, n - start_position)
              IN [panic |-> FALSE,
                  path |-> IF Len(full) = depth THEN Some(full) ELSE None]
    ELSE LET node_leafs == Pow(RECURSIVE_SIZE, depth - current_depth - 1) * BATCH_SIZE
         IN IF n < start_position
            THEN [panic |-> TRUE, path |-> None]
            ELSE LET index == (n - start_position) \div node_leafs
                 IN IF current_node.children = None
                       \/ index >= Len(unwrap(current_node.children))
                    THEN [panic |-> TRUE, path |-> None]
                    ELSE nth_leaf_walk(depth, n, current_depth + 1,
                                       unwrap(current_node.children)[index + 1],
                                       start_position + index * node_leafs,
                                       Append(path, index))

\* the walk with start_position counted from 1
get_nth_leaf_path_from_one(tree, n) == nth_leaf_walk(tree.depth, n, 1, tree.root, 1, <<>>)

get_nth_leaf_path(tree, n) == nth_leaf_walk(tree.depth, n, 1, tree.root, 0, <<>>)

\* MerkleProof (src/types.rs): left_hashes, right_hashes, parent_hashes
\* MerkleTree::prove_inclusion.  [panic, proof]: panic when a child on the way
\* has no hash, a node has no children or an index is out of bounds.
RECURSIVE prove_inclusion_walk(_, _, _, _)
prove_inclusion_walk(path, i, current_node, merkle_proof) ==
    IF i >= Len(path) - 1
    THEN IF merkle_proof = None
         THEN [panic |-> TRUE, proof |-> None]
         ELSE [panic |-> FALSE, proof |-> merkle_proof]
    ELSE LET index == path[i + 2]
         IN IF current_node.children = None
            THEN [panic |-> TRUE, proof |-> None]
            ELSE LET nodes == unwrap(current_node.children)
                 IN IF (\E k \in 1..Len(nodes) : nodes[k].hash = None) \/ index >= Len(nodes)
                    THEN [panic |-> TRUE, proof |-> None]
                    ELSE LET hashes == [k \in 1..Len(nodes) |-> unwrap(nodes[k].hash)]
                             left_hashes_temp == SubSeq(hashes, 1, index)
                             right_hashes_temp == SubSeq(hashes, index + 2, Len(hashes))
                         IN prove_inclusion_walk(path, i + 1, nodes[index + 1],
                                Some([left_hashes |-> left_hashes_temp,
                                      right_hashes |-> right_hashes_temp,
                                      parent_hashes |-> merkle_proof]))

prove_inclusion(tree, path) == prove_inclusion_walk(path, 0, tree.root, None)

\* InclusionProof::calculate_merkle_root_hash (src/types.rs)
RECURSIVE merkle_root_walk(_, _)
merkle_root_walk(current_hash, current_node) ==
    IF current_node = None
    THEN current_hash
    ELSE LET node == unwrap(current_node)
             hashes == node.left_hashes \o << current_hash >> \o node.right_hashes
         IN merkle_root_walk(hash_n_subhashes(hashes), node.parent_hashes)

\* calculate_merkle_root_hash stopping after the first level of the chain
calculate_merkle_root_hash_one_level(inclusion_proof, leaf_hash) ==
    hash_n_subhashes(inclusion_proof.merkle_proof.left_hashes \o << leaf_hash >>
                     \o inclusion_proof.merkle_proof.right_hashes)

calculate_merkle_root_hash(inclusion_proof, leaf_hash) ==
    merkle_root_walk(leaf_hash, Some(inclusion_proof.merkle_proof))

\* ---------------------------------------------------------------- circuits
\* A circuit is named by what fixes its constraint system (and so its
\* verifier digest): its kind, the asset count, the configured sizes and,
\* for a recursive circuit, the circuit it verifies.
\* A ProofWithPublicInputs is [circuit, public_inputs].

\* get_final_balances_offset / get_asset_prices_offset / get_root_hash_offset
\* (the same in both circuits), as the first and last position of a 0-based range
get_final_balances_offset(asset_count) == [start |-> 0, end |-> asset_count]
get_asset_prices_offset(asset_count) == [start |-> asset_count, end |-> asset_count * 2]
get_root_hash_offset(asset_count) == [start |-> asset_count * 2, end |-> asset_count * 2 + 4]
\* public_inputs[range]
Slice(pis, range) == SubSeq(pis, range.start + 1, range.end)

\* BatchCircuit::new
BatchCircuit_new(asset_count) ==
    [kind |-> "batch", asset_count |-> asset_count,
     batch_size |-> BATCH_SIZE, recursive_size |-> RECURSIVE_SIZE, inner |-> None]

\* BatchCircuit::new, lines 60-71: the equity of one account and its constraint
RECURSIVE account_equity(_, _, _, _)
account_equity(asset_balances, asset_prices_target, i, acc) ==
    IF i > Min(Len(asset_balances), Len(asset_prices_target))
    THEN acc
    ELSE account_equity(asset_balances, asset_prices_target, i + 1,
                        mul_add(asset_balances[i], asset_prices_target[i], acc))

\* the equity checked against one bit less than 62
equity_constraint_one_bit_less(equity) == range_check(equity, EquityBits - 1)
\* the equity checked against the whole word instead of 62 bits
equity_constraint_full_word(equity) == range_check(equity, WordBits)
equity_constraint(equity) == range_check(equity, EquityBits)

\* BatchCircuit::new, lines 76-93: the running sum of one asset over the
\* accounts and its "not overflowing" constraint; [ok, sum]
RECURSIVE batch_asset_sum(_, _, _, _)
batch_asset_sum(accounts, i, k, sum) ==
    IF k > Len(accounts)
    THEN [ok |-> TRUE, sum |-> sum]
    ELSE LET new_sum == FAdd(accounts[k][i], sum)
             diff == FSub(new_sum, sum)
             not_overflowed == is_equal(diff, accounts[k][i])
             rest == batch_asset_sum(accounts, i, k + 1, new_sum)
         IN [ok |-> assert_bool(not_overflowed) /\ rest.ok, sum |-> rest.sum]

\* the witness of the batch circuit against its constraints: [ok, public_inputs]
BatchCircuit_eval(asset_count, asset_prices, account_balances, leaf_hashes) ==
    LET equities == [k \in 1..Len(account_balances) |->
                        account_equity(account_balances[k], asset_prices, 1, 0)]
        sums == [i \in 1..asset_count |-> batch_asset_sum(account_balances, i, 1, 0)]
        total_asset_values == [i \in 1..asset_count |-> sums[i].sum]
        concat_hashes == Flatten([k \in 1..Len(leaf_hashes) |-> elements(leaf_hashes[k])])
        root_hash == hash_no_pad(concat_hashes)
    IN [ok |-> /\ \A k \in 1..Len(equities) : equity_constraint(equities[k])
               /\ \A i \in 1..asset_count : sums[i].ok,
        public_inputs |-> total_asset_values \o asset_prices \o elements(root_hash)]

\* BatchCircuit::prove_batch_circuit: [panic, ok, proof]; panic is the failed
\* assert on the number of accounts, ok = FALSE is Err (no proof)
prove_batch_circuit(circuit, asset_prices, accounts, leaf_hashes) ==
    IF Len(accounts) # BATCH_SIZE
    THEN [panic |-> TRUE, ok |-> FALSE, proof |-> None]
    ELSE LET prices_f == [i \in 1..Len(asset_prices) |-> from_canonical_u64(asset_prices[i])]
             account_balances == [k \in 1..Len(accounts) |->
                 [i \in 1..Len(accounts[k]) |-> from_noncanonical_i64(accounts[k][i])]]
             ev == BatchCircuit_eval(circuit.asset_count, prices_f, account_balances, leaf_hashes)
         IN IF ev.ok
            THEN [panic |-> FALSE, ok |-> TRUE,
                  proof |-> Some([circuit |-> circuit, public_inputs |-> ev.public_inputs])]
            ELSE [panic |-> FALSE, ok |-> FALSE, proof |-> None]

\* the empty proof made of accounts holding 1 of every asset
BatchCircuit_prove_empty_ones(circuit, asset_prices) ==
    LET prices_f == [i \in 1..Len(asset_prices) |-> from_canonical_u64(asset_prices[i])]
        ones == Repeat(Repeat(from_noncanonical_i64(1), circuit.asset_count), BATCH_SIZE)
        ev == BatchCircuit_eval(circuit.asset_count, prices_f, ones,
                                Repeat(DefaultHash, BATCH_SIZE))
    IN [panic |-> ~ev.ok,
        proof |-> [circuit |-> circuit, public_inputs |-> ev.public_inputs]]

\* BatchCircuit::prove_empty: zero balances and default leaf hashes; unwrapped
BatchCircuit_prove_empty(circuit, asset_prices) ==
    LET prices_f == [i \in 1..Len(asset_prices) |-> from_canonical_u64(asset_prices[i])]
        zero == Repeat(Repeat(from_noncanonical_i64(0), circuit.asset_count), BATCH_SIZE)
        ev == BatchCircuit_eval(circuit.asset_count, prices_f, zero,
                                Repeat(DefaultHash, BATCH_SIZE))
    IN [panic |-> ~ev.ok,
        proof |-> [circuit |-> circuit, public_inputs |-> ev.public_inputs]]

\* RecursiveCircuit::new
RecursiveCircuit_new(inner_circuit, asset_count) ==
    [kind |-> "recursive", asset_count |-> asset_count,
     batch_size |-> BATCH_SIZE, recursive_size |-> RECURSIVE_SIZE,
     inner |-> Some(inner_circuit)]

\* RecursiveCircuit::new, lines 74-97: the running sum of one asset over the
\* inner proofs and its overflow constraint; [ok, sum]
RECURSIVE recursive_asset_sum(_, _, _, _)
recursive_asset_sum(inner_balances, i, k, final_balance) ==
    IF k > Len(inner_balances)
    THEN [ok |-> TRUE, sum |-> final_balance]
    ELSE LET new_summed_bal == FAdd(inner_balances[k][i], final_balance)
             is_sum1_positive == is_positive(inner_balances[k][i])
             is_sum2_positive == is_positive(final_balance)
             is_both_positive == and(is_sum1_positive, is_sum2_positive)
             is_result_negative == is_negative(new_summed_bal)
             is_overflow == and(is_both_positive, is_result_negative)
             is_not_overflow == not(is_overflow)
             rest == recursive_asset_sum(inner_balances, i, k + 1, new_summed_bal)
         IN [ok |-> assert_bool(is_not_overflow) /\ rest.ok, sum |-> rest.sum]

\* the inner proofs of a recursive circuit against its constraints
RecursiveCircuit_eval(circuit, subproofs) ==
    LET asset_count == circuit.asset_count
        slots == SubSeq(subproofs, 1, RECURSIVE_SIZE)
        inner_balances == [k \in 1..Len(slots) |->
            Slice(slots[k].public_inputs, get_final_balances_offset(asset_count))]
        sums == [i \in 1..asset_count |-> recursive_asset_sum(inner_balances, i, 1, 0)]
        final_balances == [i \in 1..asset_count |-> sums[i].sum]
        asset_prices == Slice(slots[1].public_inputs, get_asset_prices_offset(asset_count))
        concat_hashes == Flatten([k \in 1..Len(slots) |->
            Slice(slots[k].public_inputs, get_root_hash_offset(asset_count))])
        root_hash == hash_no_pad(concat_hashes)
    IN [ok |-> /\ \A k \in 1..Len(slots) : slots[k].circuit = unwrap(circuit.inner)
               /\ \A i \in 1..asset_count : sums[i].ok
               /\ \A k \in 1..Len(slots) :
                     Slice(slots[k].public_inputs, get_asset_prices_offset(asset_count))
                         = asset_prices,
        public_inputs |-> final_balances \o asset_prices \o elements(root_hash)]

\* RecursiveCircuit::prove_recursive_circuit: [panic, proof]; it unwraps the
\* prover's result and indexes subproofs[i] for every slot
prove_recursive_circuit(circuit, subproofs) ==
    IF Len(subproofs) < RECURSIVE_SIZE
    THEN [panic |-> TRUE, proof |-> None]
    ELSE LET ev == RecursiveCircuit_eval(circuit, subproofs)
         IN IF ev.ok
            THEN [panic |-> FALSE,
                  proof |-> Some([circuit |-> circuit, public_inputs |-> ev.public_inputs])]
            ELSE [panic |-> TRUE, proof |-> None]

\* the registry whose empty batch proof is made with all prices 0
CircuitRegistry_new_zero_prices(batch_circuit, asset_prices) ==
    LET e == BatchCircuit_prove_empty(batch_circuit, Repeat(0, Len(asset_prices)))
    IN [panic |-> e.panic,
        registry |-> [batch_circuit |-> [circuit |-> batch_circuit, empty_proof |-> e.proof],
                      recursive_circuits |-> <<>>]]

\* ---------------------------------------------------------------- registry
\* CircuitRegistry: batch_circuit entry and the map digest -> entry of the
\* recursive circuits, kept as the list of its entries [circuit, empty_proof, depth]
CircuitRegistry_new(batch_circuit, asset_prices) ==
    LET e == BatchCircuit_prove_empty(batch_circuit, asset_prices)
    IN [panic |-> e.panic,
        registry |-> [batch_circuit |-> [circuit |-> batch_circuit, empty_proof |-> e.proof],
                      recursive_circuits |-> <<>>]]

get_batch_circuit(registry) == registry.batch_circuit.circuit

\* Option<&RecursiveCircuitEntry>
get_recursive_circuit(registry, digest) ==
    LET found == SelectSeq(registry.recursive_circuits, LAMBDA e : e.circuit = digest)
    IN IF found = <<>> THEN None ELSE Some(found[1])

get_empty_proof(registry, digest) ==
    LET recursive_entry == get_recursive_circuit(registry, digest)
    IN IF recursive_entry # None
       THEN unwrap(recursive_entry).empty_proof
       ELSE IF digest = registry.batch_circuit.circuit
            THEN Some(registry.batch_circuit.empty_proof)
            ELSE None

\* RecursiveCircuit::prove_empty: [panic, proof]
RecursiveCircuit_prove_empty(circuit, registry) ==
    LET cached_proof == get_empty_proof(registry, circuit)
    IN IF cached_proof # None
       THEN [panic |-> FALSE, proof |-> cached_proof]
       ELSE LET inner_empty_proof == get_empty_proof(registry, unwrap(circuit.inner))
            IN IF inner_empty_proof = None
               THEN [panic |-> TRUE, proof |-> None]
               ELSE prove_recursive_circuit(circuit,
                        Repeat(unwrap(inner_empty_proof), RECURSIVE_SIZE))

\* HashMap::insert
map_insert(entries, e) == Append(SelectSeq(entries, LAMBDA x : x.circuit # e.circuit), e)

\* every circuit is registered without an empty proof
add_recursive_circuit_no_empty(registry, circuit, depth) ==
    [panic |-> FALSE,
     registry |-> [registry EXCEPT !.recursive_circuits =
         map_insert(@, [circuit |-> circuit, empty_proof |-> None, depth |-> depth])]]

\* CircuitRegistry::add_recursive_circuit: [panic, registry]
add_recursive_circuit(registry, circuit, depth) ==
    IF depth = 1
    THEN [panic |-> FALSE,
          registry |-> [registry EXCEPT !.recursive_circuits =
              map_insert(@, [circuit |-> circuit, empty_proof |-> None, depth |-> depth])]]
    ELSE LET e == RecursiveCircuit_prove_empty(circuit, registry)
         IN IF e.panic
            THEN [panic |-> TRUE, registry |-> registry]
            ELSE [panic |-> FALSE,
                  registry |-> [registry EXCEPT !.recursive_circuits =
                      map_insert(@, [circuit |-> circuit, empty_proof |-> e.proof,
                                     depth |-> depth])]]

\* CircuitRegistry::get_recursive_circuit_by_depth: the entries the iteration
\* over the map's values can return first
get_recursive_circuit_by_depth(registry, depth) ==
    {i \in 1..Len(registry.recursive_circuits) : registry.recursive_circuits[i].depth = depth}

\* ---------------------------------------------------------------- bounds
\* most batches of a ledger (with BATCH_SIZE = RECURSIVE_SIZE = 2, five batches
\* give a tree of depth 5 with padding at the batch level and one level above)
MaxBatches == 5
\* a ledger is a base list of at most MaxPattern accounts, repeated
MaxPattern == 2
\* user hashes repeat after this many accounts
DistinctHashes == 7
\* batches of all-zero accounts a ledger is extended by
MaxExtraBatches == 3
MaxAccounts == MaxBatches * BATCH_SIZE

\* asset prices (u64) of the ledgers tried; the asset count is their length
PriceVecs == { <<1>>, <<1, 2>>, <<0, 3>> }
\* account balances (i64) tried, per asset count
AccountSamples(asset_count) ==
    IF asset_count = 1
    THEN { <<5>>, <<60>>, <<-1>> }
    ELSE { <<10, -3>>, <<115, 0>>, <<-3, 1>> }
\* states of the random generator at the start of prove_global
SeedSet == { 0, 77 }

Patterns(asset_count) ==
    UNION { [1..m -> AccountSamples(asset_count)] : m \in 1..MaxPattern }

\* the ledger of n accounts that repeats a base list, each entry of the list
\* in runs of BATCH_SIZE + 1 accounts (so batches of equal and of mixed
\* accounts both occur, and a later batch can differ from the first)
LedgerOf(prices, pattern, n) ==
    [asset_names |-> [i \in 1..Len(prices) |-> i],
     asset_prices |-> prices,
     asset_decimals |-> [i \in 1..Len(prices) |-> [usdt_decimals |-> 2, balance_decimals |-> 6]],
     hashes |-> [k \in 1..n |-> << k % DistinctHashes >>],
     account_balances |->
         [k \in 1..n |-> pattern[(((k - 1) \div (BATCH_SIZE + 1)) % Len(pattern)) + 1]]]

Ledgers ==
    UNION { { LedgerOf(prices, pattern, n) :
                pattern \in Patterns(Len(prices)), n \in 1..MaxAccounts } :
            prices \in PriceVecs }

\* ---------------------------------------------------------------- state
VARIABLES
    ledger,            \* prove_global's ledger (padded in place)
    pc,                \* position in prove_global / prove_recursively
    rng,               \* state of the random generator behind rand::random
    batch_circuit,     \* Option<BatchCircuit>
    count,             \* prove_global's chunk counter
    batch_proofs,
    merkle_leafs,
    account_nonces,
    merkle_tree,       \* Option<MerkleTree>
    circuit_registry,  \* Option<CircuitRegistry>
    frame,             \* the running call of prove_recursively
    root_proof,        \* Option: what prove_recursively returned
    final_proof,       \* Option<FinalProof>
    user_index,        \* the leaf index prove_user_inclusion was called with
    issued_proof,      \* Option<InclusionProof>: what prove_user_inclusion returned
    inclusion_proof,   \* Option<InclusionProof>: the file verify_user_inclusion read
    inclusion_result,  \* "none", "accepted" or "panic" (a failed assert or unwrap)
    checked_tree,      \* Option<MerkleTree>: the tree file MerkleTree::verify read
    verify_result,     \* Option<bool>: what MerkleTree::verify returned
    verifier_config,   \* BATCH_SIZE and RECURSIVE_SIZE the verifying binary was compiled with
    verifier_log,      \* what assert_config logged
    root_file,         \* Option: the files handed to verify_root
    root_result,       \* outcome of verify_root
    asked_hash,        \* Option: the hash prove_user_inclusion_by_hash was asked for
    ledger_file,       \* private_ledger.json: the ledger as the commands read it
    sign,              \* Option: a field element and what the sign gadgets make of it
    batched,           \* the run of prove_inclusion_all_batched
    daemon             \* the prover server and its connections

\* rand::random::<u64>(): the next output of the generator
NextRand(r) == (5 * r + 3) % Word

NoFrame == [inner_circuit_digest |-> None, inner_proofs |-> <<>>, merkle_depth |-> None,
            recursive_circuit |-> None, recursive_proofs |-> <<>>]

ProveInit ==
    /\ pc = "start"
    /\ rng \in SeedSet
    /\ batch_circuit = None
    /\ count = 0
    /\ batch_proofs = <<>>
    /\ merkle_leafs = <<>>
    /\ account_nonces = <<>>
    /\ merkle_tree = None
    /\ circuit_registry = None
    /\ frame = NoFrame
    /\ root_proof = None
    /\ final_proof = None

asset_count_of(l) == Len(l.asset_names)

\* the constants of config.rs as the proving binary has them
OwnConfig == [batch_size |-> BATCH_SIZE, recursive_size |-> RECURSIVE_SIZE]

\* what the pipeline and the single-user commands leave alone
side_vars == << ledger_file, sign, batched, daemon >>

reader_vars == << user_index, issued_proof, inclusion_proof, inclusion_result,
                  checked_tree, verify_result, verifier_config, verifier_log,
                  root_file, root_result, asked_hash, side_vars >>

ReaderInit ==
    /\ user_index = 0
    /\ issued_proof = None
    /\ inclusion_proof = None
    /\ inclusion_result = "none"
    /\ checked_tree = None
    /\ verify_result = None
    /\ verifier_config = OwnConfig
    /\ verifier_log = {}
    /\ root_file = None
    /\ root_result = "none"
    /\ asked_hash = None
    /\ ledger_file = ledger
    /\ sign = None
    /\ batched = None
    /\ daemon = None

\* ---------------------------------------------------------------- prove_global
\* lines 166-186: pad the accounts, build the batch circuit
PadAccounts ==
    /\ pc = "start"
    /\ LET padded == pad_accounts(ledger.account_balances, ledger.hashes,
                                  asset_count_of(ledger), BATCH_SIZE)
       IN ledger' = [ledger EXCEPT !.account_balances = padded.accounts,
                                   !.hashes = padded.hashes]
    /\ batch_circuit' = Some(BatchCircuit_new(asset_count_of(ledger)))
    /\ pc' = "batch"
    /\ UNCHANGED << rng, count, batch_proofs, merkle_leafs, account_nonces, merkle_tree,
                    circuit_registry, frame, root_proof, final_proof >>
    /\ UNCHANGED reader_vars

\* the nonces of one chunk, drawn one account at a time
RECURSIVE draw_nonces(_, _)
draw_nonces(r, n) == IF n = 0 THEN <<>> ELSE << NextRand(r) >> \o draw_nonces(NextRand(r), n - 1)

\* lines 190-229 with the nonces of a chunk pushed in the opposite order
ProveBatch_unordered ==
    /\ pc = "batch"
    /\ count < Len(Chunks(ledger.account_balances, BATCH_SIZE))
    /\ LET chunk == Chunks(ledger.account_balances, BATCH_SIZE)[count + 1]
           nonces == draw_nonces(rng, Len(chunk))
           leaf_hashes == [i \in 1..Len(chunk) |->
               hash_account(chunk[i], ledger.hashes[count * BATCH_SIZE + i], nonces[i])]
           r == prove_batch_circuit(unwrap(batch_circuit), ledger.asset_prices, chunk,
                                    leaf_hashes)
       IN /\ rng' = nonces[Len(nonces)]
          /\ account_nonces' = account_nonces
                  \o [i \in 1..Len(nonces) |-> nonces[Len(nonces) + 1 - i]]
          /\ IF r.panic \/ ~r.ok
             THEN /\ pc' = "panicked"
                  /\ UNCHANGED << merkle_leafs, batch_proofs, count >>
             ELSE /\ merkle_leafs' = Append(merkle_leafs, leaf_hashes)
                  /\ batch_proofs' = Append(batch_proofs, unwrap(r.proof))
                  /\ count' = count + 1
                  /\ pc' = pc
    /\ UNCHANGED << ledger, batch_circuit, merkle_tree, circuit_registry, frame,
                    root_proof, final_proof >>
    /\ UNCHANGED reader_vars

\* lines 190-229: one turn of the loop over the chunks
ProveBatch ==
    /\ pc = "batch"
    /\ count < Len(Chunks(ledger.account_balances, BATCH_SIZE))
    /\ LET chunk == Chunks(ledger.account_balances, BATCH_SIZE)[count + 1]
           nonces == draw_nonces(rng, Len(chunk))
           leaf_hashes == [i \in 1..Len(chunk) |->
               hash_account(chunk[i], ledger.hashes[count * BATCH_SIZE + i], nonces[i])]
           r == prove_batch_circuit(unwrap(batch_circuit), ledger.asset_prices, chunk,
                                    leaf_hashes)
       IN /\ rng' = nonces[Len(nonces)]
          /\ account_nonces' = account_nonces \o nonces
          /\ IF r.panic \/ ~r.ok
             THEN /\ pc' = "panicked"
                  /\ UNCHANGED << merkle_leafs, batch_proofs, count >>
             ELSE /\ merkle_leafs' = Append(merkle_leafs, leaf_hashes)
                  /\ batch_proofs' = Append(batch_proofs, unwrap(r.proof))
                  /\ count' = count + 1
                  /\ pc' = pc
    /\ UNCHANGED << ledger, batch_circuit, merkle_tree, circuit_registry, frame,
                    root_proof, final_proof >>
    /\ UNCHANGED reader_vars

\* lines 234-248: the leaf nodes, the tree structure, the registry
BuildTree ==
    /\ pc = "batch"
    /\ count = Len(Chunks(ledger.account_balances, BATCH_SIZE))
    /\ LET hashes == Flatten(merkle_leafs)
           leaf_nodes == [k \in 1..Len(hashes) |-> Node_new(Some(hashes[k]))]
           reg == CircuitRegistry_new(unwrap(batch_circuit), ledger.asset_prices)
       IN /\ merkle_tree' = Some(new_from_leafs(leaf_nodes, 1, TRUE))
          /\ IF reg.panic
             THEN pc' = "panicked" /\ UNCHANGED circuit_registry
             ELSE pc' = "populate" /\ circuit_registry' = Some(reg.registry)
    /\ UNCHANGED << ledger, rng, batch_circuit, count, batch_proofs, merkle_leafs,
                    account_nonces, frame, root_proof, final_proof >>
    /\ UNCHANGED reader_vars

\* lines 250-278: every node of the batch level gets the root hash of its
\* batch proof, or of the empty proof when it is a padding node; [panic, tree]
RECURSIVE populate_batch_nodes(_, _, _, _, _, _)
populate_batch_nodes(tree, batch_nodes, proofs, registry, digest, k) ==
    IF k >= Len(batch_nodes)
    THEN [panic |-> FALSE, tree |-> tree]
    ELSE LET proof == IF k >= Len(proofs)
                      THEN get_empty_proof(registry, digest)
                      ELSE Some(proofs[k + 1])
         IN IF proof = None
            THEN [panic |-> TRUE, tree |-> tree]
            ELSE LET hash_offset == get_root_hash_offset(digest.asset_count)
                     hash_elements == Slice(unwrap(proof).public_inputs, hash_offset)
                     hash_bytes == pis_to_hash_bytes(hash_elements)
                 IN populate_batch_nodes(tree_set_hash(tree, batch_nodes[k + 1], hash_bytes),
                                         batch_nodes, proofs, registry, digest, k + 1)

PopulateBatchNodes ==
    /\ pc = "populate"
    /\ LET tree == unwrap(merkle_tree)
           r == populate_batch_nodes(tree, get_nodes_from_depth(tree, tree.depth - 1),
                                     batch_proofs, unwrap(circuit_registry),
                                     unwrap(batch_circuit), 0)
       IN IF r.panic
          THEN pc' = "panicked" /\ UNCHANGED << merkle_tree, frame >>
          ELSE /\ merkle_tree' = Some(r.tree)
               /\ frame' = [NoFrame EXCEPT !.inner_proofs = batch_proofs]
               /\ pc' = "rec_enter"
    /\ UNCHANGED << ledger, rng, batch_circuit, count, batch_proofs, merkle_leafs,
                    account_nonces, circuit_registry, root_proof, final_proof >>
    /\ UNCHANGED reader_vars

\* lines 79-97 left out: the child level's nodes without a hash keep none
fill_padded_nodes_none(tree, nodes, inner_proofs, asset_count, k) ==
    [panic |-> FALSE, tree |-> tree]

\* ---------------------------------------------------------------- prove_recursively
\* lines 79-97: the nodes of the child level that have no hash yet get the
\* root hash of the inner proof at their position; [panic, tree]
RECURSIVE fill_padded_nodes(_, _, _, _, _)
fill_padded_nodes(tree, nodes, inner_proofs, asset_count, k) ==
    IF k >= Len(nodes)
    THEN [panic |-> FALSE, tree |-> tree]
    ELSE IF node_at(tree.root, nodes[k + 1]).hash # None
         THEN fill_padded_nodes(tree, nodes, inner_proofs, asset_count, k + 1)
         ELSE IF k >= Len(inner_proofs)
              THEN [panic |-> TRUE, tree |-> tree]
              ELSE LET hash_offset == get_root_hash_offset(asset_count)
                       hash_elements == Slice(inner_proofs[k + 1].public_inputs, hash_offset)
                       hash_bytes == pis_to_hash_bytes(hash_elements)
                   IN fill_padded_nodes(tree_set_hash(tree, nodes[k + 1], hash_bytes),
                                        nodes, inner_proofs, asset_count, k + 1)

\* lines 127-147 left out: no hash of the level is written
write_level_hashes_none(tree, nodes, recursive_proofs, asset_count, k) == tree

\* lines 127-147 with every node of the level given the first proof's root hash
RECURSIVE write_level_hashes_first_proof(_, _, _, _, _)
write_level_hashes_first_proof(tree, nodes, recursive_proofs, asset_count, k) ==
    IF k >= Len(nodes) \/ k >= Len(recursive_proofs)
    THEN tree
    ELSE LET hash_offset == get_root_hash_offset(asset_count)
             hash_elements == Slice(recursive_proofs[1].public_inputs, hash_offset)
             hash_bytes == pis_to_hash_bytes(hash_elements)
         IN write_level_hashes_first_proof(tree_set_hash(tree, nodes[k + 1], hash_bytes),
                                           nodes, recursive_proofs, asset_count, k + 1)

\* lines 127-147: the nodes of the current level get the root hashes of the
\* new proofs, position by position, until the proofs run out
RECURSIVE write_level_hashes(_, _, _, _, _)
write_level_hashes(tree, nodes, recursive_proofs, asset_count, k) ==
    IF k >= Len(nodes) \/ k >= Len(recursive_proofs)
    THEN tree
    ELSE LET hash_offset == get_root_hash_offset(asset_count)
             hash_elements == Slice(recursive_proofs[k + 1].public_inputs, hash_offset)
             hash_bytes == pis_to_hash_bytes(hash_elements)
         IN write_level_hashes(tree_set_hash(tree, nodes[k + 1], hash_bytes),
                               nodes, recursive_proofs, asset_count, k + 1)

\* lines 38-97: the inner circuit, the new recursive circuit, the padding of
\* the inner proofs and of the child level's nodes
RecEnter ==
    /\ pc = "rec_enter"
    /\ LET registry == unwrap(circuit_registry)
           tree == unwrap(merkle_tree)
           asset_count == asset_count_of(ledger)
           entry == IF frame.inner_circuit_digest # None
                    THEN get_recursive_circuit(registry, unwrap(frame.inner_circuit_digest))
                    ELSE None
           missing == frame.inner_circuit_digest # None /\ entry = None
           inner_circuit == IF frame.inner_circuit_digest # None
                            THEN unwrap(entry).circuit
                            ELSE get_batch_circuit(registry)
           merkle_depth == IF frame.merkle_depth = None
                           THEN tree.depth - 2
                           ELSE unwrap(frame.merkle_depth)
       IN IF missing \/ merkle_depth < 0
          THEN pc' = "panicked" /\ UNCHANGED << frame, merkle_tree >>
          ELSE LET recursive_circuit == RecursiveCircuit_new(inner_circuit, asset_count)
                   empty_proof == get_empty_proof(registry, inner_circuit)
               IN IF empty_proof = None
                  THEN pc' = "panicked" /\ UNCHANGED << frame, merkle_tree >>
                  ELSE LET inner_proofs == pad_recursive_proofs(frame.inner_proofs,
                                                                unwrap(empty_proof))
                           r == fill_padded_nodes(tree,
                                    get_nodes_from_depth(tree, merkle_depth + 1),
                                    inner_proofs, asset_count, 0)
                       IN IF r.panic
                          THEN pc' = "panicked" /\ UNCHANGED << frame, merkle_tree >>
                          ELSE /\ merkle_tree' = Some(r.tree)
                               /\ frame' = [frame EXCEPT
                                      !.inner_proofs = inner_proofs,
                                      !.merkle_depth = Some(merkle_depth),
                                      !.recursive_circuit = Some(recursive_circuit)]
                               /\ pc' = "rec_prove"
    /\ UNCHANGED << ledger, rng, batch_circuit, count, batch_proofs, merkle_leafs,
                    account_nonces, circuit_registry, root_proof, final_proof >>
    /\ UNCHANGED reader_vars

\* lines 99-121: one recursive proof per chunk of RECURSIVE_SIZE inner proofs
RecProve ==
    /\ pc = "rec_prove"
    /\ LET subproofs == Chunks(frame.inner_proofs, RECURSIVE_SIZE)
           proved == [k \in 1..Len(subproofs) |->
               prove_recursive_circuit(unwrap(frame.recursive_circuit), subproofs[k])]
       IN IF \E k \in 1..Len(proved) : proved[k].panic
          THEN pc' = "panicked" /\ UNCHANGED frame
          ELSE /\ frame' = [frame EXCEPT !.recursive_proofs =
                                [k \in 1..Len(proved) |-> unwrap(proved[k].proof)]]
               /\ pc' = "rec_register"
    /\ UNCHANGED << ledger, rng, batch_circuit, count, batch_proofs, merkle_leafs,
                    account_nonces, merkle_tree, circuit_registry, root_proof, final_proof >>
    /\ UNCHANGED reader_vars

\* lines 123-125: the circuit enters the registry under the level's depth
RecRegister ==
    /\ pc = "rec_register"
    /\ LET r == add_recursive_circuit(unwrap(circuit_registry),
                                      unwrap(frame.recursive_circuit),
                                      unwrap(frame.merkle_depth))
       IN IF r.panic
          THEN pc' = "panicked" /\ UNCHANGED circuit_registry
          ELSE pc' = "rec_write" /\ circuit_registry' = Some(r.registry)
    /\ UNCHANGED << ledger, rng, batch_circuit, count, batch_proofs, merkle_leafs,
                    account_nonces, merkle_tree, frame, root_proof, final_proof >>
    /\ UNCHANGED reader_vars

\* lines 127-162 with the next level entered at the same Merkle depth
RecWrite_same_depth ==
    /\ pc = "rec_write"
    /\ LET tree == unwrap(merkle_tree)
           merkle_depth == unwrap(frame.merkle_depth)
           written == write_level_hashes(tree, get_nodes_from_depth(tree, merkle_depth),
                                         frame.recursive_proofs, asset_count_of(ledger), 0)
       IN /\ merkle_tree' = Some(written)
          /\ IF Len(frame.recursive_proofs) > 1
             THEN /\ frame' = [inner_circuit_digest |-> frame.recursive_circuit,
                               inner_proofs |-> frame.recursive_proofs,
                               merkle_depth |-> Some(merkle_depth),
                               recursive_circuit |-> None,
                               recursive_proofs |-> <<>>]
                  /\ pc' = "rec_enter"
                  /\ UNCHANGED root_proof
             ELSE IF frame.recursive_proofs = <<>>
                  THEN pc' = "panicked" /\ UNCHANGED << frame, root_proof >>
                  ELSE /\ root_proof' = Some(frame.recursive_proofs[1])
                       /\ pc' = "assemble"
                       /\ UNCHANGED frame
    /\ UNCHANGED << ledger, rng, batch_circuit, count, batch_proofs, merkle_leafs,
                    account_nonces, circuit_registry, final_proof >>
    /\ UNCHANGED reader_vars

\* lines 127-162: the level's hashes are written, then the next level or the return
RecWrite ==
    /\ pc = "rec_write"
    /\ LET tree == unwrap(merkle_tree)
           merkle_depth == unwrap(frame.merkle_depth)
           written == write_level_hashes(tree, get_nodes_from_depth(tree, merkle_depth),
                                         frame.recursive_proofs, asset_count_of(ledger), 0)
       IN /\ merkle_tree' = Some(written)
          /\ IF Len(frame.recursive_proofs) > 1
             THEN /\ frame' = [inner_circuit_digest |-> frame.recursive_circuit,
                               inner_proofs |-> frame.recursive_proofs,
                               merkle_depth |-> Some(merkle_depth - 1),
                               recursive_circuit |-> None,
                               recursive_proofs |-> <<>>]
                  /\ pc' = "rec_enter"
                  /\ UNCHANGED root_proof
             ELSE IF frame.recursive_proofs = <<>>
                  THEN pc' = "panicked" /\ UNCHANGED << frame, root_proof >>
                  ELSE /\ root_proof' = Some(frame.recursive_proofs[1])
                       /\ pc' = "assemble"
                       /\ UNCHANGED frame
    /\ UNCHANGED << ledger, rng, batch_circuit, count, batch_proofs, merkle_leafs,
                    account_nonces, circuit_registry, final_proof >>
    /\ UNCHANGED reader_vars

\* prove_global, lines 306-335: the FinalProof around the root proof
AssembleFinalProof ==
    /\ pc = "assemble"
    /\ LET registry == unwrap(circuit_registry)
           found == get_recursive_circuit_by_depth(registry, 1)
       IN IF found = {}
          THEN pc' = "panicked" /\ UNCHANGED final_proof
          ELSE \E i \in found :
                 /\ final_proof' = Some(
                        [proof |-> unwrap(root_proof),
                         batch_size |-> BATCH_SIZE,
                         recursive_size |-> RECURSIVE_SIZE,
                         asset_prices |-> ledger.asset_prices,
                         asset_names |-> ledger.asset_names,
                         asset_decimals |-> ledger.asset_decimals,
                         tree_depth |-> unwrap(merkle_tree).depth,
                         root_circuit_verifier_data |-> registry.recursive_circuits[i].circuit])
                 /\ pc' = "done"
    /\ UNCHANGED << ledger, rng, batch_circuit, count, batch_proofs, merkle_leafs,
                    account_nonces, merkle_tree, circuit_registry, frame, root_proof >>
    /\ UNCHANGED reader_vars

\* ---------------------------------------------------------------- inclusion
\* prove_user_inclusion (src/core/prover.rs): [panic, proof]
prove_user_inclusion(index, user_hash, nonce, tree, l) ==
    IF index >= Len(l.account_balances)
    THEN [panic |-> TRUE, proof |-> None]
    ELSE LET user_balances == l.account_balances[index + 1]
             user_node_path == get_nth_leaf_path(tree, index)
         IN IF user_node_path.panic \/ user_node_path.path = None
            THEN [panic |-> TRUE, proof |-> None]
            ELSE LET merkle_proof == prove_inclusion(tree, unwrap(user_node_path.path))
                 IN IF merkle_proof.panic \/ tree.root.hash = None
                    THEN [panic |-> TRUE, proof |-> None]
                    ELSE [panic |-> FALSE,
                          proof |-> Some([user_hash |-> user_hash,
                                          user_balances |-> user_balances,
                                          merkle_proof |-> unwrap(merkle_proof.proof),
                                          root_hash |-> unwrap(tree.root.hash),
                                          nonce |-> nonce])]

\* VerifierCircuitData::verify of a proof against the circuit data it is given
verifier_data_verify(verifier_data, proof) == proof.circuit = verifier_data

\* ---- the verifying binary's configuration (config.rs, lib.rs) ----

\* the verifier may have been compiled with other sizes than the prover
VerifierConfigs ==
    { OwnConfig,
      [OwnConfig EXCEPT !.batch_size = @ + 1],
      [OwnConfig EXCEPT !.recursive_size = @ + 1] }

\* assert_config only logs: the set of messages it logged
assert_config(fp, config) ==
    (IF fp.batch_size # config.batch_size THEN { "batch_size" } ELSE {})
    \cup (IF fp.recursive_size # config.recursive_size THEN { "recursive_size" } ELSE {})

\* the circuit the constructors build in a binary compiled with config
RECURSIVE compiled_with(_, _)
compiled_with(config, circuit) ==
    [kind |-> circuit.kind, asset_count |-> circuit.asset_count,
     batch_size |-> config.batch_size, recursive_size |-> config.recursive_size,
     inner |-> IF circuit.inner = None
               THEN None
               ELSE Some(compiled_with(config, unwrap(circuit.inner)))]

\* verify_user_inclusion (src/core/verifier.rs): "accepted" when it returns,
\* "panic" when an assert, an expect or an index fails
verify_user_inclusion(fp, ip) ==
    LET asset_count == Len(fp.asset_names)
    IN IF Len(ip.user_balances) < asset_count
       THEN "panic"
       ELSE IF ~verifier_data_verify(fp.root_circuit_verifier_data, fp.proof)
            THEN "panic"
            ELSE LET hash_offset == get_root_hash_offset(asset_count)
                     proof_hash == Slice(fp.proof.public_inputs, hash_offset)
                     proof_hash_bytes == pis_to_hash_bytes(proof_hash)
                     account_hash == hash_account(ip.user_balances, ip.user_hash, ip.nonce)
                     calculated_root_hash == calculate_merkle_root_hash(ip, account_hash)
                 IN IF calculated_root_hash = proof_hash_bytes
                    THEN "accepted"
                    ELSE "panic"

\* one call of prove_user_inclusion for a leaf of the padded ledger
ProveUserInclusion ==
    /\ pc = "done"
    /\ \E i \in 0..(Len(ledger.account_balances) - 1) :
         LET r == prove_user_inclusion(i, ledger.hashes[i + 1], account_nonces[i + 1],
                                       unwrap(merkle_tree), ledger)
         IN /\ user_index' = i
            /\ IF r.panic
               THEN pc' = "panicked" /\ UNCHANGED issued_proof
               ELSE pc' = "included" /\ issued_proof' = r.proof
    /\ UNCHANGED << ledger, rng, batch_circuit, count, batch_proofs, merkle_leafs,
                    account_nonces, merkle_tree, circuit_registry, frame, root_proof,
                    final_proof, inclusion_proof, inclusion_result, checked_tree,
                    verify_result, verifier_config, verifier_log, root_file,
                    root_result, asked_hash >>
    /\ UNCHANGED side_vars

\* ---- the inclusion proof files a verifier can be handed
\* a hash no honest run produces
ForgedHash == [kind |-> "leaf", pre |-> << 0 >>]
OtherHash(h) == IF h = ForgedHash THEN DefaultHash ELSE ForgedHash

\* the other i64 with the same residue, when there is one
Congruent(b) ==
    IF b + ORDER < Word \div 2 THEN { b + ORDER }
    ELSE IF b - ORDER >= -(Word \div 2) THEN { b - ORDER }
    ELSE {}
BalanceForgeries(ip) ==
    (AccountSamples(Len(ip.user_balances))
       \cup UNION { { [ip.user_balances EXCEPT ![i] = c] : c \in Congruent(ip.user_balances[i]) } :
                     i \in 1..Len(ip.user_balances) }
       \cup { [ip.user_balances EXCEPT ![i] = (@ + 1) % (Word \div 2)] :
                i \in 1..Len(ip.user_balances) })
    \ { ip.user_balances }
NonceForgeries(ip) ==
    ({ (ip.nonce + 1) % Word }
       \cup (IF ip.nonce + ORDER < Word THEN { ip.nonce + ORDER } ELSE {})
       \cup (IF ip.nonce >= ORDER THEN { ip.nonce - ORDER } ELSE {}))
    \ { ip.nonce }

\* the merkle proofs that differ from mp in one hash of one list of one level
RECURSIVE SiblingForgeries(_)
SiblingForgeries(mp) ==
    { [mp EXCEPT !.left_hashes[k] = OtherHash(@)] : k \in 1..Len(mp.left_hashes) }
    \cup { [mp EXCEPT !.right_hashes[k] = OtherHash(@)] : k \in 1..Len(mp.right_hashes) }
    \cup (IF mp.parent_hashes = None
          THEN {}
          ELSE { [mp EXCEPT !.parent_hashes = Some(q)] :
                   q \in SiblingForgeries(unwrap(mp.parent_hashes)) })

TamperedBalances(ip) == { [ip EXCEPT !.user_balances = b] : b \in BalanceForgeries(ip) }
TamperedNonce(ip) == { [ip EXCEPT !.nonce = n] : n \in NonceForgeries(ip) }
TamperedSiblings(ip) == { [ip EXCEPT !.merkle_proof = q] : q \in SiblingForgeries(ip.merkle_proof) }
TamperedUserHash(ip) == { [ip EXCEPT !.user_hash = << (@[1] + 1) % Word >> \o Tail(@)] }
TamperedRootHash(ip) == { [ip EXCEPT !.root_hash = OtherHash(@)] }

InclusionFiles(ip) ==
    { ip } \cup TamperedBalances(ip) \cup TamperedNonce(ip) \cup TamperedSiblings(ip)
           \cup TamperedUserHash(ip) \cup TamperedRootHash(ip)

\* one call of verify_user_inclusion on the final proof and an inclusion proof file
VerifyUserInclusion ==
    /\ pc = "included"
    /\ \E ip \in InclusionFiles(unwrap(issued_proof)), config \in VerifierConfigs :
         /\ config = OwnConfig \/ ip = unwrap(issued_proof)
         /\ verifier_config' = config
         /\ verifier_log' = assert_config(unwrap(final_proof), config)
         /\ inclusion_proof' = Some(ip)
         /\ inclusion_result' = verify_user_inclusion(unwrap(final_proof), ip)
    /\ pc' = "verified"
    /\ UNCHANGED << ledger, rng, batch_circuit, count, batch_proofs, merkle_leafs,
                    account_nonces, merkle_tree, circuit_registry, frame, root_proof,
                    final_proof, user_index, issued_proof, checked_tree, verify_result,
                    root_file, root_result, asked_hash >>
    /\ UNCHANGED side_vars

\* ---- the tree files MerkleTree::verify can be handed
AllPlaces(tree) ==
    UNION { { get_nodes_from_depth(tree, d)[k] :
                k \in 1..Len(get_nodes_from_depth(tree, d)) } : d \in 1..tree.depth }
TreeFiles(tree) ==
    { tree } \cup { tree_set_hash(tree, place, OtherHash(unwrap(node_at(tree.root, place).hash))) :
                      place \in { q \in AllPlaces(tree) : node_at(tree.root, q).hash # None } }

\* one call of MerkleTree::verify on a tree file (verify_root, line 186)
VerifyTree ==
    /\ pc = "done"
    /\ \E t \in TreeFiles(unwrap(merkle_tree)) :
         /\ checked_tree' = Some(t)
         /\ verify_result' = Some(verify(t))
    /\ pc' = "tree_verified"
    /\ UNCHANGED << ledger, rng, batch_circuit, count, batch_proofs, merkle_leafs,
                    account_nonces, merkle_tree, circuit_registry, frame, root_proof,
                    final_proof, user_index, issued_proof, inclusion_proof,
                    inclusion_result, verifier_config, verifier_log, root_file,
                    root_result, asked_hash >>
    /\ UNCHANGED side_vars

\* ---------------------------------------------------------------- specification
\* ---- prove_global as one function (prover.rs) ----

\* prove_recursively from one level on: Some(root proof), None when a step panics
RECURSIVE prove_recursively(_, _, _, _, _)
prove_recursively(inner_circuit, asset_count, inner_proofs, merkle_depth, registry) ==
    LET recursive_circuit == RecursiveCircuit_new(inner_circuit, asset_count)
        empty_proof == get_empty_proof(registry, inner_circuit)
    IN IF empty_proof = None \/ merkle_depth < 0
       THEN None
       ELSE LET padded == pad_recursive_proofs(inner_proofs, unwrap(empty_proof))
                subproofs == Chunks(padded, RECURSIVE_SIZE)
                proved == [k \in 1..Len(subproofs) |->
                              prove_recursive_circuit(recursive_circuit, subproofs[k])]
                added == add_recursive_circuit(registry, recursive_circuit, merkle_depth)
            IN IF (\E k \in 1..Len(proved) : proved[k].panic) \/ added.panic \/ proved = <<>>
               THEN None
               ELSE IF Len(proved) > 1
                    THEN prove_recursively(recursive_circuit, asset_count,
                                           [k \in 1..Len(proved) |-> unwrap(proved[k].proof)],
                                           merkle_depth - 1, added.registry)
                    ELSE proved[1].proof

\* the root proof prove_global computes for ledger l when the random generator
\* gives nonces: Some(proof), None when proving fails
prove_global(l, nonces) ==
    LET asset_count == asset_count_of(l)
        padded == pad_accounts(l.account_balances, l.hashes, asset_count, BATCH_SIZE)
        circuit == BatchCircuit_new(asset_count)
        chunks == Chunks(padded.accounts, BATCH_SIZE)
        leaf_hashes == [c \in 1..Len(chunks) |-> [i \in 1..BATCH_SIZE |->
            hash_account(chunks[c][i], padded.hashes[(c - 1) * BATCH_SIZE + i],
                         nonces[(c - 1) * BATCH_SIZE + i])]]
        proved == [c \in 1..Len(chunks) |->
            prove_batch_circuit(circuit, l.asset_prices, chunks[c], leaf_hashes[c])]
        hashes == Flatten(leaf_hashes)
        tree == new_from_leafs([k \in 1..Len(hashes) |-> Node_new(Some(hashes[k]))], 1, TRUE)
        reg == CircuitRegistry_new(circuit, l.asset_prices)
    IN IF (\E c \in 1..Len(chunks) : proved[c].panic \/ ~proved[c].ok) \/ reg.panic
       THEN None
       ELSE prove_recursively(circuit, asset_count,
                              [c \in 1..Len(chunks) |-> unwrap(proved[c].proof)],
                              tree.depth - 2, reg.registry)

\* ---- prove_user_inclusion_by_hash (prover.rs) ----

\* iter().position(): the first index (from 0) holding the hash; iter().rposition()
\* would give the last
position(hashes, hash) ==
    LET found == { k \in 1..Len(hashes) : hashes[k] = hash }
    IN IF found = {}
       THEN None
       ELSE Some((CHOOSE k \in found : \A j \in found : k <= j) - 1)

\* the lookup taking the last index that holds the hash
prove_user_inclusion_by_hash_last(hash, tree, nonces, l) ==
    LET found == { k \in 1..Len(l.hashes) : l.hashes[k] = hash }
    IN IF found = {}
       THEN [err |-> TRUE, panic |-> FALSE, proof |-> None, index |-> 0]
       ELSE LET index == (CHOOSE k \in found : \A j \in found : k >= j) - 1
            IN IF index >= Len(nonces)
               THEN [err |-> FALSE, panic |-> TRUE, proof |-> None, index |-> index]
               ELSE LET r == prove_user_inclusion(index, hash, nonces[index + 1], tree, l)
                    IN [err |-> FALSE, panic |-> r.panic, proof |-> r.proof, index |-> index]

\* [err, panic, proof, index]: err for Err("User hash not found in ledger"),
\* panic when nonces[user_index] is out of bounds or prove_user_inclusion panics
prove_user_inclusion_by_hash(hash, tree, nonces, l) ==
    LET found == position(l.hashes, hash)
    IN IF found = None
       THEN [err |-> TRUE, panic |-> FALSE, proof |-> None, index |-> 0]
       ELSE LET index == unwrap(found)
            IN IF index >= Len(nonces)
               THEN [err |-> FALSE, panic |-> TRUE, proof |-> None, index |-> index]
               ELSE LET r == prove_user_inclusion(index, hash, nonces[index + 1], tree, l)
                    IN [err |-> FALSE, panic |-> r.panic, proof |-> r.proof, index |-> index]

\* a hash no account of the ledgers has
AbsentHash == << DistinctHashes >>

\* main's ProveInclusion --userhash
ProveUserInclusionByHash ==
    /\ pc = "done"
    /\ \E hash \in { ledger.hashes[k] : k \in 1..Len(ledger.hashes) } \cup { AbsentHash } :
         LET r == prove_user_inclusion_by_hash(hash, unwrap(merkle_tree), account_nonces, ledger)
         IN /\ asked_hash' = Some(hash)
            /\ user_index' = r.index
            /\ issued_proof' = r.proof
            /\ pc' = IF r.err THEN "not_found" ELSE IF r.panic THEN "panicked" ELSE "included"
    /\ UNCHANGED << ledger, rng, batch_circuit, count, batch_proofs, merkle_leafs,
                    account_nonces, merkle_tree, circuit_registry, frame, root_proof,
                    final_proof, inclusion_proof, inclusion_result, checked_tree,
                    verify_result, verifier_config, verifier_log, root_file,
                    root_result >>
    /\ UNCHANGED side_vars

\* ---- verify_root (verifier.rs) ----

\* the loop of rebuild_root_circuit from iteration i on: Some(root circuit)
RECURSIVE rebuild_loop(_, _, _, _)
rebuild_loop(inner_circuit, asset_count, i, depth) ==
    LET recursive_circuit == RecursiveCircuit_new(inner_circuit, asset_count)
    IN IF i = depth - 2
       THEN Some(recursive_circuit)
       ELSE rebuild_loop(recursive_circuit, asset_count, i + 1, depth)

\* the chain with one recursive circuit more than depth - 1
rebuild_root_circuit_one_deeper(asset_count, depth, config) ==
    [panic |-> FALSE,
     circuit |-> compiled_with(config,
                     unwrap(rebuild_loop(BatchCircuit_new(asset_count),
                                         asset_count, 0, depth + 1)))]

\* depth < 1: depth - 1 underflows (overflow panic, or a loop that never ends);
\* depth = 1: the loop body never runs and root_circuit.unwrap() panics
rebuild_root_circuit(asset_count, depth, config) ==
    IF depth - 1 < 1
    THEN [panic |-> TRUE, circuit |-> BatchCircuit_new(asset_count)]
    ELSE [panic |-> FALSE,
          circuit |-> compiled_with(config,
                          unwrap(rebuild_loop(BatchCircuit_new(asset_count),
                                              asset_count, 0, depth)))]

\* asset_prices[i].try_into().unwrap() of print_global_information
print_global_information(fp) ==
    \E i \in 1..Len(fp.asset_names) : fp.asset_prices[i] > (Word \div 2) - 1

\* asset_reserves[i].to_canonical_u64().try_into().unwrap() of print_reserves
print_reserves(fp) ==
    LET asset_count == Len(fp.asset_names)
        asset_reserves == Slice(fp.proof.public_inputs, get_final_balances_offset(asset_count))
    IN \E i \in 1..asset_count : asset_reserves[i] > (Word \div 2) - 1

check_digest(built, fp) == built.circuit = fp.root_circuit_verifier_data
check_proof(built, fp) == verifier_data_verify(built.circuit, fp.proof)
check_prices(fp) ==
    LET asset_count == Len(fp.asset_names)
        proof_asset_prices == Slice(fp.proof.public_inputs, get_asset_prices_offset(asset_count))
    IN \A i \in 1..Len(proof_asset_prices) : proof_asset_prices[i] = fp.asset_prices[i]
check_decimals(fp) ==
    LET summed_decimals == fp.asset_decimals[1].balance_decimals + fp.asset_decimals[1].usdt_decimals
    IN \A i \in 1..Len(fp.asset_names) :
         fp.asset_decimals[i].usdt_decimals + fp.asset_decimals[i].balance_decimals = summed_decimals
check_root_hash(fp, tree) ==
    LET asset_count == Len(fp.asset_names)
        proof_hash == Slice(fp.proof.public_inputs, get_root_hash_offset(asset_count))
    IN unwrap(tree.root.hash) = pis_to_hash_bytes(proof_hash)

\* the same assertions with prices looked at before the proof
verify_root_prices_first(fp, tree, config) ==
    LET asset_count == Len(fp.asset_names)
        built == rebuild_root_circuit(asset_count, fp.tree_depth - 1, config)
    IN IF print_global_information(fp) THEN "panic"
       ELSE IF built.panic THEN "panic"
       ELSE IF ~check_digest(built, fp) THEN "digest"
       ELSE IF ~check_prices(fp) THEN "prices"
       ELSE IF ~check_proof(built, fp) THEN "proof"
       ELSE IF ~check_decimals(fp) THEN "decimals"
       ELSE IF tree.root.hash = None THEN "panic"
       ELSE IF ~check_root_hash(fp, tree) THEN "root_hash"
       ELSE IF ~verify(tree) THEN "tree"
       ELSE IF print_reserves(fp) THEN "reserves"
       ELSE "ok"

\* "ok" when verify_root returns, else the assertion or unwrap that aborts it
verify_root(fp, tree, config) ==
    LET asset_count == Len(fp.asset_names)
        built == rebuild_root_circuit(asset_count, fp.tree_depth - 1, config)
    IN IF print_global_information(fp) THEN "panic"
       ELSE IF built.panic THEN "panic"
       ELSE IF ~check_digest(built, fp) THEN "digest"
       ELSE IF ~check_proof(built, fp) THEN "proof"
       ELSE IF ~check_prices(fp) THEN "prices"
       ELSE IF ~check_decimals(fp) THEN "decimals"
       ELSE IF tree.root.hash = None THEN "panic"
       ELSE IF ~check_root_hash(fp, tree) THEN "root_hash"
       ELSE IF ~verify(tree) THEN "tree"
       ELSE IF print_reserves(fp) THEN "reserves"
       ELSE "ok"

\* a circuit no honest build produces, for a proof that verifies under nothing
NoCircuit ==
    [kind |-> "none", asset_count |-> 0, batch_size |-> 0, recursive_size |-> 0,
     inner |-> None]

\* one change to the files or to the verifier's build
Tamperings ==
    { "verifier_data", "tree_depth_up", "tree_depth_down", "proof", "asset_prices",
      "asset_decimals", "root_hash", "child_hash", "batch_size", "recursive_size" }

Tamper(name, f) ==
    CASE name = "verifier_data" ->
           [f EXCEPT !.final_proof.root_circuit_verifier_data = unwrap(@.inner)]
      [] name = "tree_depth_up" -> [f EXCEPT !.final_proof.tree_depth = @ + 1]
      [] name = "tree_depth_down" -> [f EXCEPT !.final_proof.tree_depth = @ - 1]
      [] name = "proof" ->
           [f EXCEPT !.final_proof.proof =
               [circuit |-> NoCircuit,
                public_inputs |-> [@.public_inputs EXCEPT ![1] = (@ + 1) % ORDER]]]
      [] name = "asset_prices" -> [f EXCEPT !.final_proof.asset_prices[1] = @ + 1]
      [] name = "asset_decimals" ->
           [f EXCEPT !.final_proof.asset_decimals[Len(f.final_proof.asset_decimals)].usdt_decimals = @ + 1]
      [] name = "root_hash" ->
           [f EXCEPT !.merkle_tree =
               tree_set_hash(@, <<>>, OtherHash(unwrap(@.root.hash)))]
      [] name = "child_hash" ->
           [f EXCEPT !.merkle_tree =
               tree_set_hash(@, << 1 >>, OtherHash(unwrap(node_at(@.root, << 1 >>).hash)))]
      [] name = "batch_size" -> [f EXCEPT !.config.batch_size = @ + 1]
      [] name = "recursive_size" -> [f EXCEPT !.config.recursive_size = @ + 1]

\* the files as written, and with one or two changes
RootFiles(f) ==
    { f } \cup { Tamper(a, f) : a \in Tamperings }
        \cup { Tamper(p[2], Tamper(p[1], f)) :
                   p \in { q \in Tamperings \X Tamperings : q[1] # q[2] } }

\* verify_from_files: assert_config, then verify_root
VerifyRoot ==
    /\ pc = "done"
    /\ \E f \in RootFiles([final_proof |-> unwrap(final_proof),
                          merkle_tree |-> unwrap(merkle_tree),
                          config |-> OwnConfig]) :
         /\ root_file' = Some(f)
         /\ verifier_config' = f.config
         /\ verifier_log' = assert_config(f.final_proof, f.config)
         /\ root_result' = verify_root(f.final_proof, f.merkle_tree, f.config)
    /\ pc' = "root_verified"
    /\ UNCHANGED << ledger, rng, batch_circuit, count, batch_proofs, merkle_leafs,
                    account_nonces, merkle_tree, circuit_registry, frame, root_proof,
                    final_proof, user_index, issued_proof, inclusion_proof,
                    inclusion_result, checked_tree, verify_result, asked_hash >>
    /\ UNCHANGED side_vars

vars == << ledger, pc, rng, batch_circuit, count, batch_proofs, merkle_leafs,
           account_nonces, merkle_tree, circuit_registry, frame, root_proof,
           final_proof, user_index, issued_proof, inclusion_proof, inclusion_result,
           checked_tree, verify_result, verifier_config, verifier_log, root_file,
           root_result, asked_hash, ledger_file, sign, batched, daemon >>

Init == ledger \in Ledgers /\ ProveInit /\ ReaderInit

Next ==
    \/ PadAccounts
    \/ ProveBatch
    \/ BuildTree
    \/ PopulateBatchNodes
    \/ RecEnter
    \/ RecProve
    \/ RecRegister
    \/ RecWrite
    \/ AssembleFinalProof
    \/ ProveUserInclusion
    \/ VerifyUserInclusion
    \/ VerifyTree
    \/ VerifyRoot

Spec == Init /\ [][Next]_vars

\* ---------------------------------------------------------------- sign gadgets
\* circuit_helper.rs lines 6-22: a circuit applies is_negative and
\* is_positive to a wire holding the field element x
ApplySign ==
    /\ \E x \in 0..(ORDER - 1) :
          sign' = Some([x |-> x, is_negative |-> is_negative(x),
                        is_positive |-> is_positive(x)])
    /\ UNCHANGED << ledger, pc, rng, batch_circuit, count, batch_proofs, merkle_leafs,
                    account_nonces, merkle_tree, circuit_registry, frame, root_proof,
                    final_proof, user_index, issued_proof, inclusion_proof,
                    inclusion_result, checked_tree, verify_result, verifier_config,
                    verifier_log, root_file, root_result, asked_hash, ledger_file,
                    batched, daemon >>

\* the gadgets alone, on the wires of the circuits of a one-account ledger
SignInit == Init /\ Len(ledger.account_balances) = 1

SignSpec == SignInit /\ [][ApplySign]_vars

\* prove_global alone
NextProve ==
    \/ PadAccounts
    \/ ProveBatch
    \/ BuildTree
    \/ PopulateBatchNodes
    \/ RecEnter
    \/ RecProve
    \/ RecRegister
    \/ RecWrite
    \/ AssembleFinalProof

PipelineSpec == Init /\ [][NextProve]_vars

\* the positions at which prove_global has a next statement to execute
Running ==
    pc \in { "start", "batch", "populate", "rec_enter", "rec_prove",
             "rec_register", "rec_write", "assemble" }

\* the statements of prove_global run one after the other on one thread, so a
\* step that can be taken is taken: WF_vars(NextProve), with ENABLED written
\* out as the position guard of the steps
ProveSpec ==
    /\ Init
    /\ [][NextProve]_vars
    /\ ([]<>(~Running) \/ []<><<NextProve>>_vars)

\* prove_global followed by inclusion proofs asked for by user hash
NextByHash ==
    \/ PadAccounts
    \/ ProveBatch
    \/ BuildTree
    \/ PopulateBatchNodes
    \/ RecEnter
    \/ RecProve
    \/ RecRegister
    \/ RecWrite
    \/ AssembleFinalProof
    \/ ProveUserInclusionByHash

HashSpec == Init /\ [][NextByHash]_vars

\* ---------------------------------------------------------------- batched inclusion
\* a userhash is a string of hexadecimal characters, a word every WordChars
\* of them (helper_utils.rs lines 85-91); the model's word has WordBits bits
HexBase == 4
WordChars == 4
\* userhash.chars().take(3)
PrefixLen == 3

\* the characters of one word, most significant first
word_chars(w) == [k \in 1..WordChars |-> (w \div Pow(HexBase, WordChars - k)) % HexBase]

\* userhash.chars()
chars(userhash) == Flatten([i \in 1..Len(userhash) |-> word_chars(userhash[i])])

\* userhash.chars().take(3).collect::<String>()
prefix_of(userhash) == SubSeq(chars(userhash), 1, Min(PrefixLen, Len(chars(userhash))))

\* lines 397-403: the indices of every prefix, in the order of the ledger
group_hashes(hashes) ==
    [p \in { prefix_of(hashes[i]) : i \in 1..Len(hashes) } |->
        SelectSeq([i \in 1..Len(hashes) |-> i - 1], LAMBDA i : prefix_of(hashes[i + 1]) = p)]

\* format!("inclusion_proofs/inclusion_proofs_{prefix}.json.zst")
bundle_filename(p) == << "inclusion_proofs/inclusion_proofs_", p, ".json.zst" >>

\* lines 421-435: the proofs of a group collected into a HashMap keyed by the
\* userhash; of the pairs with the same key the later one stays.  [panic, map]
collect_group(group, hashes, nonces, tree, l) ==
    LET proofs == [k \in 1..Len(group) |->
            prove_user_inclusion(group[k], hashes[group[k] + 1], nonces[group[k] + 1], tree, l)]
        last(h) == CHOOSE k \in 1..Len(group) :
                      /\ hashes[group[k] + 1] = h
                      /\ \A j \in (k + 1)..Len(group) : hashes[group[j] + 1] # h
    IN IF \E k \in 1..Len(group) : proofs[k].panic
       THEN [panic |-> TRUE, map |-> None]
       ELSE [panic |-> FALSE,
             map |-> Some([h \in { hashes[group[k] + 1] : k \in 1..Len(group) } |->
                              unwrap(proofs[last(h)].proof)])]

pipeline_vars == << ledger, pc, rng, batch_circuit, count, batch_proofs, merkle_leafs,
                    account_nonces, merkle_tree, circuit_registry, frame, root_proof,
                    final_proof >>

command_vars == << user_index, issued_proof, inclusion_proof, inclusion_result,
                   checked_tree, verify_result, verifier_config, verifier_log,
                   root_file, root_result, asked_hash >>

\* lines 386-416: the groups, the counters, the directory
StartBatched ==
    /\ pc = "done"
    /\ batched = None
    /\ LET groups == group_hashes(ledger_file.hashes)
       IN batched' = Some([pc |-> "running",
                           groups |-> groups,
                           task |-> [p \in DOMAIN groups |-> "waiting"],
                           bundle |-> [p \in DOMAIN groups |-> None],
                           files |-> {},
                           total_groups |-> Cardinality(DOMAIN groups),
                           total_hashes |-> Len(ledger_file.hashes),
                           processed_groups |-> 0,
                           processed_hashes |-> 0])
    /\ UNCHANGED << pipeline_vars, command_vars, ledger_file, sign, daemon >>

\* lines 419-435: a task takes a group and collects its proofs
CollectGroup ==
    /\ batched # None
    /\ unwrap(batched).pc = "running"
    /\ \E p \in DOMAIN unwrap(batched).groups :
          /\ unwrap(batched).task[p] = "waiting"
          /\ LET b == unwrap(batched)
                 r == collect_group(b.groups[p], ledger_file.hashes, account_nonces,
                                    unwrap(merkle_tree), ledger_file)
             IN IF r.panic
                THEN batched' = Some([b EXCEPT !.pc = "panicked"])
                ELSE batched' = Some([b EXCEPT !.task[p] = "collected", !.bundle[p] = r.map])
    /\ UNCHANGED << pipeline_vars, command_vars, ledger_file, sign, daemon >>

\* try_for_each after an error: a group no task has taken may be left out
SkipGroup ==
    /\ batched # None
    /\ unwrap(batched).pc = "running"
    /\ \E p \in DOMAIN unwrap(batched).groups :
          /\ unwrap(batched).task[p] = "waiting"
          /\ \E q \in DOMAIN unwrap(batched).groups : unwrap(batched).task[q] = "failed"
          /\ batched' = Some([unwrap(batched) EXCEPT !.task[p] = "skipped"])
    /\ UNCHANGED << pipeline_vars, command_vars, ledger_file, sign, daemon >>

\* lines 441-447: serde_json::to_string, zstd::encode_all and the start of
\* std::fs::write, any of which can fail
WriteBegin ==
    /\ batched # None
    /\ unwrap(batched).pc = "running"
    /\ \E p \in DOMAIN unwrap(batched).groups :
          /\ unwrap(batched).task[p] = "collected"
          /\ \E io_ok \in BOOLEAN :
                batched' = Some([unwrap(batched) EXCEPT
                                    !.task[p] = IF io_ok THEN "writing" ELSE "failed"])
    /\ UNCHANGED << pipeline_vars, command_vars, ledger_file, sign, daemon >>

\* line 447: std::fs::write has written the file
WriteEnd ==
    /\ batched # None
    /\ unwrap(batched).pc = "running"
    /\ \E p \in DOMAIN unwrap(batched).groups :
          /\ unwrap(batched).task[p] = "writing"
          /\ LET b == unwrap(batched)
                 file == [path |-> bundle_filename(p),
                          content |-> [encoding |-> "json.zst", map |-> unwrap(b.bundle[p])]]
             IN batched' = Some([b EXCEPT
                    !.task[p] = "written",
                    !.files = { f \in @ : f.path # file.path } \cup { file }])
    /\ UNCHANGED << pipeline_vars, command_vars, ledger_file, sign, daemon >>

\* lines 450-451: processed_groups.fetch_add(1)
CountGroup ==
    /\ batched # None
    /\ unwrap(batched).pc = "running"
    /\ \E p \in DOMAIN unwrap(batched).groups :
          /\ unwrap(batched).task[p] = "written"
          /\ batched' = Some([unwrap(batched) EXCEPT
                                 !.task[p] = "counted",
                                 !.processed_groups = @ + 1])
    /\ UNCHANGED << pipeline_vars, command_vars, ledger_file, sign, daemon >>

\* lines 452-454: processed_hashes.fetch_add(group.len())
CountHashes ==
    /\ batched # None
    /\ unwrap(batched).pc = "running"
    /\ \E p \in DOMAIN unwrap(batched).groups :
          /\ unwrap(batched).task[p] = "counted"
          /\ batched' = Some([unwrap(batched) EXCEPT
                                 !.task[p] = "finished",
                                 !.processed_hashes = @ + Len(unwrap(batched).groups[p])])
    /\ UNCHANGED << pipeline_vars, command_vars, ledger_file, sign, daemon >>

\* lines 476-484: processing_result?
FinishBatched ==
    /\ batched # None
    /\ unwrap(batched).pc = "running"
    /\ LET b == unwrap(batched)
       IN /\ \A p \in DOMAIN b.groups : b.task[p] \in { "finished", "failed", "skipped" }
          /\ batched' = Some([b EXCEPT !.pc =
                 IF \E p \in DOMAIN b.groups : b.task[p] = "failed" THEN "err" ELSE "ok"])
    /\ UNCHANGED << pipeline_vars, command_vars, ledger_file, sign, daemon >>

\* prove_global followed by prove-inclusion --all-batched
NextBatched ==
    \/ PadAccounts
    \/ ProveBatch
    \/ BuildTree
    \/ PopulateBatchNodes
    \/ RecEnter
    \/ RecProve
    \/ RecRegister
    \/ RecWrite
    \/ AssembleFinalProof
    \/ StartBatched
    \/ CollectGroup
    \/ SkipGroup
    \/ WriteBegin
    \/ WriteEnd
    \/ CountGroup
    \/ CountHashes
    \/ FinishBatched

BatchedSpec == Init /\ [][NextBatched]_vars

\* ---------------------------------------------------------------- daemon
\* the clients that connect to the socket
Conns == { "a", "b" }
\* most request lines the clients write, all connections together
MaxRequests == 3

\* the lines a client writes: a userhash of the ledger or one that is not
RequestLines == { ledger_file.hashes[1], AbsentHash }

\* format!("{}/inclusion_proofs/inclusion_proof_{}.json", current_dir, hash)
proof_path(hash) == << "cwd", "/inclusion_proofs/inclusion_proof_", hash, ".json" >>

NoConnection == [state |-> "idle", sent |-> <<>>, client_closed |-> FALSE, read |-> 0,
                 at |-> "none", current |-> None, replies |-> <<>>, ended_by |-> "none"]

\* all request lines written so far
TotalSent == LET d == unwrap(daemon)
                 lens == [c \in Conns |-> Len(d.conn[c].sent)]
             IN lens["a"] + lens["b"]

\* a handler that goes on reading after a failure
ended_keeps_serving(connection, cause) ==
    [connection EXCEPT !.at = "read", !.current = None, !.ended_by = cause]

\* what the handler's return or panic leaves: the thread is over and the
\* stream it owned is dropped
ended(connection, cause) ==
    [connection EXCEPT !.state = "closed", !.at = "ended", !.current = None,
                       !.ended_by = cause]

daemon_frame == << pipeline_vars, command_vars, ledger_file, sign, batched >>

\* server.rs lines 65-109: the shared data and the listener
StartDaemon ==
    /\ pc = "done"
    /\ daemon = None
    /\ daemon' = Some([listening |-> TRUE,
                       conn |-> [c \in Conns |-> NoConnection],
                       files |-> {}])
    /\ UNCHANGED daemon_frame

\* lines 111-125: the listener takes a connection and spawns its handler
Accept(c) ==
    /\ daemon # None
    /\ unwrap(daemon).listening
    /\ unwrap(daemon).conn[c].state = "idle"
    /\ daemon' = Some([unwrap(daemon) EXCEPT !.conn[c].state = "open", !.conn[c].at = "read"])
    /\ UNCHANGED daemon_frame

\* the client writes a request line
Send(c) ==
    /\ daemon # None
    /\ unwrap(daemon).conn[c].state = "open"
    /\ ~unwrap(daemon).conn[c].client_closed
    /\ TotalSent < MaxRequests
    /\ \E line \in RequestLines :
          daemon' = Some([unwrap(daemon) EXCEPT !.conn[c].sent = Append(@, line)])
    /\ UNCHANGED daemon_frame

\* the client closes its end
ClientClose(c) ==
    /\ daemon # None
    /\ unwrap(daemon).conn[c].state # "idle"
    /\ ~unwrap(daemon).conn[c].client_closed
    /\ daemon' = Some([unwrap(daemon) EXCEPT !.conn[c].client_closed = TRUE])
    /\ UNCHANGED daemon_frame

\* lines 22-33: read_line, then prove_user_inclusion_by_hash of the line
HandleRead(c) ==
    /\ daemon # None
    /\ unwrap(daemon).conn[c].at = "read"
    /\ LET d == unwrap(daemon)
           k == d.conn[c]
       IN IF k.read < Len(k.sent)
          THEN LET hash == k.sent[k.read + 1]
                   r == prove_user_inclusion_by_hash(hash, unwrap(merkle_tree),
                                                     account_nonces, ledger_file)
               IN daemon' = Some([d EXCEPT !.conn[c] =
                      IF r.err THEN ended([k EXCEPT !.read = @ + 1], "error")
                      ELSE IF r.panic THEN ended([k EXCEPT !.read = @ + 1], "panic")
                      ELSE [k EXCEPT !.read = @ + 1, !.at = "write_file",
                                     !.current = r.proof]])
          ELSE /\ k.client_closed
               /\ daemon' = Some([d EXCEPT !.conn[c] = ended(k, "eof")])
    /\ UNCHANGED daemon_frame

\* lines 36-43: the proof file is written, or the write fails
HandleWriteFile(c) ==
    /\ daemon # None
    /\ unwrap(daemon).conn[c].at = "write_file"
    /\ LET d == unwrap(daemon)
           k == d.conn[c]
           file == [path |-> proof_path(k.sent[k.read]), content |-> unwrap(k.current)]
       IN \E io_ok \in BOOLEAN :
             IF io_ok
             THEN daemon' = Some([d EXCEPT
                      !.files = { f \in @ : f.path # file.path } \cup { file },
                      !.conn[c].at = "reply"])
             ELSE daemon' = Some([d EXCEPT !.conn[c] = ended(k, "io")])
    /\ UNCHANGED daemon_frame

\* lines 46-48: the path goes back to the client as one line
HandleReply(c) ==
    /\ daemon # None
    /\ unwrap(daemon).conn[c].at = "reply"
    /\ LET d == unwrap(daemon)
           k == d.conn[c]
       IN IF k.client_closed
          THEN daemon' = Some([d EXCEPT !.conn[c] = ended(k, "io")])
          ELSE daemon' = Some([d EXCEPT
                   !.conn[c].replies = Append(@, proof_path(k.sent[k.read])),
                   !.conn[c].at = "read",
                   !.conn[c].current = None])
    /\ UNCHANGED daemon_frame

\* prove_global, then prove-inclusion --daemon and its clients
NextDaemon ==
    \/ PadAccounts
    \/ ProveBatch
    \/ BuildTree
    \/ PopulateBatchNodes
    \/ RecEnter
    \/ RecProve
    \/ RecRegister
    \/ RecWrite
    \/ AssembleFinalProof
    \/ StartDaemon
    \/ \E c \in Conns : Accept(c)
    \/ \E c \in Conns : Send(c)
    \/ \E c \in Conns : ClientClose(c)
    \/ \E c \in Conns : HandleRead(c)
    \/ \E c \in Conns : HandleWriteFile(c)
    \/ \E c \in Conns : HandleReply(c)

\* the daemon is started on the files of a ledger of one account and one asset
DaemonInit ==
    /\ Init
    /\ Len(ledger.account_balances) = 1
    /\ ledger.asset_prices = << 1 >>
    /\ rng = 0

\* the handler of connection c has a statement to execute: a line or the end
\* of the stream to read, a file to write, a reply to send
CanHandle(c) ==
    /\ daemon # None
    /\ \/ unwrap(daemon).conn[c].at \in { "write_file", "reply" }
       \/ /\ unwrap(daemon).conn[c].at = "read"
          /\ \/ unwrap(daemon).conn[c].read < Len(unwrap(daemon).conn[c].sent)
             \/ unwrap(daemon).conn[c].client_closed

\* a connection waits for the listener
CanAccept(c) == daemon # None /\ unwrap(daemon).conn[c].state = "idle"

Handle(c) == HandleRead(c) \/ HandleWriteFile(c) \/ HandleReply(c)

\* the main thread runs prove_global and then the listener's loop, every
\* handler is a thread of its own: a thread that can take its next step takes
\* it (weak fairness of each thread's steps, ENABLED written out as the guard)
DaemonSpec ==
    /\ DaemonInit
    /\ [][NextDaemon]_vars
    /\ ([]<>(~Running) \/ []<><<NextProve>>_vars)
    /\ ([]<>(~(pc = "done" /\ daemon = None)) \/ []<><<StartDaemon>>_vars)
    /\ \A c \in Conns :
          /\ ([]<>(~CanAccept(c)) \/ []<><<Accept(c)>>_vars)
          /\ ([]<>(~CanHandle(c)) \/ []<><<Handle(c)>>_vars)

\* ---------------------------------------------------------------- one batch
\* prove_global on ledgers of exactly one batch, over every balance that is
\* in range and a few that are not, up to the first (only) batch proof
MaxPrice == 3
BatchBalances == (0..(Pow(2, MAX_ACCOUNT_BALANCE_BITS) - 1)) \cup { -1, MAX_ACCOUNT_BALANCE }
BatchLedgers ==
    { [asset_names |-> << 1 >>,
       asset_prices |-> << price >>,
       asset_decimals |-> << [usdt_decimals |-> 2, balance_decimals |-> 6] >>,
       hashes |-> [k \in 1..BATCH_SIZE |-> << k >>],
       account_balances |-> [k \in 1..BATCH_SIZE |-> << balances[k] >>]] :
        price \in 0..MaxPrice, balances \in [1..BATCH_SIZE -> BatchBalances] }

InitBatch == ledger \in BatchLedgers /\ ProveInit /\ ReaderInit

NextBatch ==
    \/ PadAccounts
    \/ ProveBatch

BatchSpec == InitBatch /\ [][NextBatch]_vars

\* ---------------------------------------------------------------- claims
HonestFile == pc = "verified" /\ inclusion_proof = issued_proof
\* the root hash the root proof publishes
ProofRootHash(fp) ==
    pis_to_hash_bytes(Slice(fp.proof.public_inputs,
                            get_root_hash_offset(Len(fp.asset_names))))
\* the inclusion proof prove_user_inclusion returned is one the verifier accepts
IssuedAccepted ==
    verify_user_inclusion(unwrap(final_proof), unwrap(issued_proof)) = "accepted"

\* C1: after prove_global returned, prove_user_inclusion succeeds for every
\* leaf index below the padded account count, and verify_user_inclusion on
\* the final proof and the inclusion proof it returned completes: the root
\* recomputed from the leaf digest and the sibling lists is the root hash in
\* the root proof's public inputs.
C1_InclusionRoundTrip ==
    /\ pc = "done" =>
         \A i \in 0..(Len(ledger.account_balances) - 1) :
            ~prove_user_inclusion(i, ledger.hashes[i + 1], account_nonces[i + 1],
                                  unwrap(merkle_tree), ledger).panic
    /\ HonestFile =>
         /\ inclusion_result = "accepted"
         /\ LET ip == unwrap(inclusion_proof)
            IN calculate_merkle_root_hash(ip,
                   hash_account(ip.user_balances, ip.user_hash, ip.nonce))
               = ProofRootHash(unwrap(final_proof))

\* a round trip for a padding leaf of a ledger of five batches (padding at
\* the batch level and at the level above it)
C1_Witness ==
    /\ HonestFile
    /\ inclusion_result = "accepted"
    /\ Len(batch_proofs) = MaxBatches
    /\ user_index = Len(ledger.account_balances) - 1
    /\ unwrap(inclusion_proof).merkle_proof.parent_hashes # None

\* the per-asset sum, in the field, of the signed-embedded balances of the
\* accounts lo..hi of the padded ledger (nothing beyond its end)
RECURSIVE SumBalances(_, _, _)
SumBalances(asset, lo, hi) ==
    IF lo > hi
    THEN 0
    ELSE FAdd(IF lo <= Len(ledger.account_balances)
              THEN from_noncanonical_i64(ledger.account_balances[lo][asset])
              ELSE 0,
              SumBalances(asset, lo + 1, hi))
Totals(proof) == Slice(proof.public_inputs, get_final_balances_offset(asset_count_of(ledger)))
\* proof number j (from 1) of a level whose subtrees hold span leaves each
TotalsAreSubtreeSums(proof, j, span) ==
    \A a \in 1..asset_count_of(ledger) :
        Totals(proof)[a] = SumBalances(a, (j - 1) * span + 1, j * span)

\* C2: every proof prove_global produces (batch proofs, the recursive proofs
\* of every level, the root proof) has as its first A public inputs the
\* field sums of the balances of the leaves of its subtree, padding
\* contributing zero; the root proof's totals are the sums over the ledger.
C2_SumConsistency ==
    /\ \A k \in 1..Len(batch_proofs) :
          TotalsAreSubtreeSums(batch_proofs[k], k, BATCH_SIZE)
    /\ frame.recursive_proofs # <<>> =>
         LET level == unwrap(merkle_tree).depth - 1 - unwrap(frame.merkle_depth)
             span == BATCH_SIZE * Pow(RECURSIVE_SIZE, level)
         IN \A j \in 1..Len(frame.recursive_proofs) :
               TotalsAreSubtreeSums(frame.recursive_proofs[j], j, span)
    /\ final_proof # None =>
         TotalsAreSubtreeSums(unwrap(final_proof).proof, 1, Len(ledger.account_balances))

\* a root proof over five batches with a total that is not zero
C2_Witness ==
    /\ pc = "done"
    /\ Len(batch_proofs) = MaxBatches
    /\ Totals(unwrap(final_proof).proof)[1] # 0
    /\ Totals(frame.inner_proofs[2])[1] # 0

\* the equity of an account, in the field, is negative
NegativeEquity(balances) ==
    account_equity([i \in 1..Len(balances) |-> from_noncanonical_i64(balances[i])],
                   [i \in 1..Len(ledger.asset_prices) |->
                       from_canonical_u64(ledger.asset_prices[i])], 1, 0) > half
HasNegativeEquity(chunk) == \E k \in 1..Len(chunk) : NegativeEquity(chunk[k])

\* C3: prove_batch_circuit fails for every batch with an account of negative
\* equity, so no batch proof and no final proof exists for such a batch.
C3_BatchSoundness ==
    LET chunks == Chunks(ledger.account_balances, BATCH_SIZE)
    IN /\ \A k \in 1..Len(batch_proofs) : ~HasNegativeEquity(chunks[k])
       /\ final_proof # None => \A k \in 1..Len(chunks) : ~HasNegativeEquity(chunks[k])
       /\ pc = "batch" =>
            \A k \in 1..Len(chunks) :
               HasNegativeEquity(chunks[k]) =>
                  ~prove_batch_circuit(unwrap(batch_circuit), ledger.asset_prices,
                                       chunks[k], Repeat(DefaultHash, BATCH_SIZE)).ok

\* prove_global stopped at a batch (not the first) with an account of negative equity
C3_Witness ==
    /\ pc = "panicked"
    /\ count > 0
    /\ count < Len(Chunks(ledger.account_balances, BATCH_SIZE))
    /\ HasNegativeEquity(Chunks(ledger.account_balances, BATCH_SIZE)[count + 1])

\* C4: when prove_global returns, the hash of the tree's root node is the
\* hash of the root proof's public inputs [2A, 2A + 4).
C4_RootCoherence ==
    final_proof # None =>
        unwrap(merkle_tree).root.hash = Some(ProofRootHash(unwrap(final_proof)))

\* three batches: one padding node at the batch level
C4_Witness ==
    /\ pc = "done"
    /\ Len(batch_proofs) = 3
    /\ unwrap(merkle_tree).root.hash # None

\* every node with children has the hash of its children's hashes
RECURSIVE AllConsistent(_)
AllConsistent(node) ==
    \/ node.children = None
    \/ LET children == unwrap(node.children)
       IN /\ node.hash # None
          /\ \A i \in 1..Len(children) : children[i].hash # None
          /\ unwrap(node.hash)
               = hash_n_subhashes([i \in 1..Len(children) |-> unwrap(children[i].hash)])
          /\ \A i \in 1..Len(children) : AllConsistent(children[i])

\* C5: MerkleTree::verify returns true exactly when every node with
\* children, at every depth, has the hash of its children's hashes.
C5_VerifyIffAllConsistent ==
    pc = "tree_verified" =>
        (unwrap(verify_result) <=> AllConsistent(unwrap(checked_tree).root))

\* C6: from an accepted inclusion proof, a different balance vector, a
\* different nonce or one replaced sibling hash makes verify_user_inclusion fail.
C6_TamperRejected ==
    (/\ pc = "verified"
     /\ IssuedAccepted
     /\ unwrap(inclusion_proof) \in
           TamperedBalances(unwrap(issued_proof))
             \cup TamperedNonce(unwrap(issued_proof))
             \cup TamperedSiblings(unwrap(issued_proof)))
    => inclusion_result = "panic"

\* C7: the leaf digest depends on the userhash, and a different user_hash
\* of the same length in an accepted inclusion proof makes
\* verify_user_inclusion fail.
C7_DigestBindsUserHash ==
    /\ pc = "included" =>
         \A ip \in TamperedUserHash(unwrap(issued_proof)) :
            hash_account(ip.user_balances, ip.user_hash, ip.nonce)
              # hash_account(ip.user_balances, unwrap(issued_proof).user_hash, ip.nonce)
    /\ (/\ pc = "verified"
        /\ IssuedAccepted
        /\ unwrap(inclusion_proof) \in TamperedUserHash(unwrap(issued_proof)))
       => inclusion_result = "panic"

\* C8: a root_hash field that is not the final proof's root hash, in an
\* otherwise accepted inclusion proof, makes verify_user_inclusion fail.
C8_RootFieldRejected ==
    (/\ pc = "verified"
     /\ IssuedAccepted
     /\ unwrap(inclusion_proof) \in TamperedRootHash(unwrap(issued_proof))
     /\ unwrap(inclusion_proof).root_hash # ProofRootHash(unwrap(final_proof)))
    => inclusion_result = "panic"

\* adding the totals of the inner proofs one by one, some step adds a
\* positive total to a positive running sum and gets a negative sum
RECURSIVE PositiveSumWraps(_, _, _, _)
PositiveSumWraps(subproofs, a, k, running) ==
    /\ k <= Len(subproofs)
    /\ LET addend == Totals(subproofs[k])[a]
           new_sum == FAdd(addend, running)
       IN \/ (running <= half /\ addend <= half /\ new_sum > half)
          \/ PositiveSumWraps(subproofs, a, k + 1, new_sum)

\* C9: no recursive proof exists over inner proofs whose running per-asset
\* sum goes from positive plus positive to negative.
C9_RecursiveOverflowCheck ==
    frame.recursive_proofs # <<>> =>
        \A j \in 1..Len(frame.recursive_proofs) :
           \A a \in 1..asset_count_of(ledger) :
              ~PositiveSumWraps(Chunks(frame.inner_proofs, RECURSIVE_SIZE)[j], a, 1, 0)

RECURSIVE IntSum(_)
IntSum(xs) == IF xs = <<>> THEN 0 ELSE Head(xs) + IntSum(Tail(xs))

\* C10: every balance of a proved batch has a field value below
\* 2^MAX_ACCOUNT_BALANCE_BITS, and the balances of one asset in a proved
\* batch do not sum past half.
C10_BalanceRangeCheck ==
    LET chunks == Chunks(ledger.account_balances, BATCH_SIZE)
    IN \A k \in 1..Len(batch_proofs) :
          \A a \in 1..asset_count_of(ledger) :
             /\ \A m \in 1..Len(chunks[k]) :
                   range_check(from_noncanonical_i64(chunks[k][m][a]),
                               MAX_ACCOUNT_BALANCE_BITS)
             /\ IntSum([m \in 1..Len(chunks[k]) |->
                           from_noncanonical_i64(chunks[k][m][a])]) <= half


\* ProveBatch has run on the first batch
FirstBatchTried == account_nonces # <<>>
FirstBatch == Chunks(ledger.account_balances, BATCH_SIZE)[1]
Equity(balances) ==
    account_equity([i \in 1..Len(balances) |-> from_noncanonical_i64(balances[i])],
                   [i \in 1..Len(ledger.asset_prices) |->
                       from_canonical_u64(ledger.asset_prices[i])], 1, 0)
BalancesInRange(balances) ==
    \A i \in 1..Len(balances) :
        from_noncanonical_i64(balances[i]) < Pow(2, MAX_ACCOUNT_BALANCE_BITS)
FirstBatchProved ==
    /\ Len(batch_proofs) = 1
    /\ verifier_data_verify(unwrap(batch_circuit), batch_proofs[1])

RootChecks(f) ==
    LET fp == f.final_proof
        built == rebuild_root_circuit(Len(fp.asset_names), fp.tree_depth - 1, f.config)
    IN << [name |-> "digest", holds |-> check_digest(built, fp)],
          [name |-> "proof", holds |-> check_proof(built, fp)],
          [name |-> "prices", holds |-> check_prices(fp)],
          [name |-> "decimals", holds |-> check_decimals(fp)],
          [name |-> "root_hash", holds |-> check_root_hash(fp, f.merkle_tree)],
          [name |-> "tree", holds |-> verify(f.merkle_tree)] >>

FailedChecks(f) == { k \in 1..Len(RootChecks(f)) : ~RootChecks(f)[k].holds }

FirstFailed(f) == CHOOSE k \in FailedChecks(f) : \A j \in FailedChecks(f) : k <= j

\* C12: verify_root returns normally only if the digest, proof, price, decimals,
\* root hash and tree checks all hold, and when some fail it aborts at the first
\* failing one in that order
C12_VerifyRootOrder ==
    pc = "root_verified" /\ root_result # "panic" =>
        LET f == unwrap(root_file)
        IN IF FailedChecks(f) = {}
           THEN root_result \in { "ok", "reserves" }
           ELSE root_result = RootChecks(f)[FirstFailed(f)].name

\* a file whose proof and prices are both wrong is refused at the proof
C12_Witness ==
    /\ pc = "root_verified"
    /\ root_result = "proof"
    /\ ~check_prices(unwrap(root_file).final_proof)

\* ---- digest determinism ----

RECURSIVE recursive_circuits_in(_)
recursive_circuits_in(circuit) ==
    IF circuit.kind = "recursive"
    THEN 1 + recursive_circuits_in(unwrap(circuit.inner))
    ELSE 0

\* C13: for the final proof of prove_global with tree depth D, the chain rebuilt
\* by verify_root has D - 2 recursive circuits, as many as the prover registered,
\* and its root circuit is the one embedded in root_circuit_verifier_data
C13_DigestDeterminism ==
    pc = "done" =>
        LET fp == unwrap(final_proof)
            built == rebuild_root_circuit(Len(fp.asset_names), fp.tree_depth - 1, OwnConfig)
        IN /\ ~built.panic
           /\ recursive_circuits_in(built.circuit) = fp.tree_depth - 2
           /\ Len(unwrap(circuit_registry).recursive_circuits) = fp.tree_depth - 2
           /\ check_digest(built, fp)

\* a proof over two recursive levels
C13_Witness ==
    /\ pc = "done"
    /\ unwrap(final_proof).tree_depth >= 4
    /\ Len(unwrap(circuit_registry).recursive_circuits) >= 2

\* ---- configuration mismatch ----

ConfigMismatch ==
    \/ unwrap(final_proof).batch_size # verifier_config.batch_size
    \/ unwrap(final_proof).recursive_size # verifier_config.recursive_size

\* C14: a final proof made under another BATCH_SIZE or RECURSIVE_SIZE than the
\* verifier's is refused by verify_root and by verify_user_inclusion, assert_config
\* included
C14_ConfigMismatchRefused ==
    /\ pc = "root_verified" /\ ConfigMismatch => root_result # "ok"
    /\ pc = "verified" /\ ConfigMismatch => inclusion_result # "accepted"



\* ---- get_nth_leaf_path ----

\* the leaves of the tree, left to right, as places below the root
LeafPlaces(tree) == get_nodes_from_depth(tree, tree.depth)

\* the leaves a tree of this depth has room for
Capacity(tree) == Pow(RECURSIVE_SIZE, tree.depth - 2) * BATCH_SIZE

\* C15: for every index at or above the number of leaves, under the padding
\* nodes or beyond the capacity, get_nth_leaf_path returns None and does not panic
C15_NoPathBeyondLeaves ==
    pc = "done" =>
        LET tree == unwrap(merkle_tree)
        IN \A i \in Len(LeafPlaces(tree))..(RECURSIVE_SIZE * Capacity(tree)) :
             /\ ~get_nth_leaf_path(tree, i).panic
             /\ get_nth_leaf_path(tree, i).path = None

\* the place a path leads to: its entries after the root's, as child positions
PlaceOf(path) == [k \in 1..(Len(path) - 1) |-> path[k + 1] + 1]

\* every entry after the root's is below the child count of the node it indexes
RECURSIVE EntriesInBounds(_, _, _)
EntriesInBounds(node, path, k) ==
    IF k > Len(path)
    THEN TRUE
    ELSE /\ node.children # None
         /\ path[k] < Len(unwrap(node.children))
         /\ EntriesInBounds(unwrap(node.children)[path[k] + 1], path, k + 1)

\* C16: for every index below the number of leaves get_nth_leaf_path does not
\* panic and returns a path of D entries, the first 0, the others in bounds of
\* the nodes they index into, leading to the i-th leaf from the left
C16_LeafPathCorrect ==
    pc \in { "done", "included" } =>
        LET tree == unwrap(merkle_tree)
        IN \A i \in 0..(Len(LeafPlaces(tree)) - 1) :
             LET r == get_nth_leaf_path(tree, i)
             IN /\ ~r.panic
                /\ r.path # None
                /\ Len(unwrap(r.path)) = tree.depth
                /\ unwrap(r.path)[1] = 0
                /\ EntriesInBounds(tree.root, unwrap(r.path), 2)
                /\ PlaceOf(unwrap(r.path)) = LeafPlaces(tree)[i + 1]
                /\ node_at(tree.root, PlaceOf(unwrap(r.path))).hash
                       = Some(Flatten(merkle_leafs)[i + 1])

\* an inclusion proof issued for a leaf of a later subtree of a tree with two
\* recursive levels
C16_Witness ==
    /\ pc = "included"
    /\ unwrap(merkle_tree).depth >= 4
    /\ user_index >= RECURSIVE_SIZE * BATCH_SIZE
    /\ unwrap(get_nth_leaf_path(unwrap(merkle_tree), user_index).path)[2] > 0



\* ---- single batch ----

SingleBatch == merkle_tree # None /\ Len(ledger.account_balances) = BATCH_SIZE

HonestRootFile ==
    /\ pc = "root_verified"
    /\ root_file = Some([final_proof |-> unwrap(final_proof),
                         merkle_tree |-> unwrap(merkle_tree),
                         config |-> OwnConfig])

HoldersOf(hash) == { k \in 1..Len(ledger.hashes) : ledger.hashes[k] = hash }

\* C18: asked for a hash that is not in ledger.hashes, prove_user_inclusion_by_hash
\* returns the error, no proof and no panic; asked for one that is, it builds
\* the proof for the first index holding it, with that index's balances and nonce
C18_ByHashFirstIndex ==
    asked_hash # None =>
        LET hash == unwrap(asked_hash)
        IN IF HoldersOf(hash) = {}
           THEN pc = "not_found" /\ issued_proof = None
           ELSE LET first == CHOOSE k \in HoldersOf(hash) : \A j \in HoldersOf(hash) : k <= j
                IN /\ pc = "included"
                   /\ user_index = first - 1
                   /\ issued_proof
                        = prove_user_inclusion(first - 1, hash, account_nonces[first],
                                               unwrap(merkle_tree), ledger).proof
                   /\ unwrap(issued_proof).user_hash = hash
                   /\ unwrap(issued_proof).user_balances = ledger.account_balances[first]
                   /\ unwrap(issued_proof).nonce = account_nonces[first]
                   /\ calculate_merkle_root_hash(unwrap(issued_proof),
                                                 Flatten(merkle_leafs)[first])
                        = unwrap(unwrap(merkle_tree).root.hash)

\* a proof asked for by a hash that two accounts with different balances hold
C18_Witness ==
    /\ asked_hash # None
    /\ pc = "included"
    /\ \E k \in HoldersOf(unwrap(asked_hash)) :
         /\ k - 1 > user_index
         /\ ledger.account_balances[k] # unwrap(issued_proof).user_balances

\* the error returned for a hash no account holds
C18_WitnessAbsent == asked_hash = Some(AbsentHash) /\ pc = "not_found"



\* ---- padding idempotence ----

\* the ledger followed by k batches of all-zero accounts
Extended(l, k) ==
    [l EXCEPT !.account_balances = @ \o Repeat(Repeat(0, asset_count_of(l)), k * BATCH_SIZE),
              !.hashes = @ \o Repeat(Repeat(0, Len(l.hashes[1])), k * BATCH_SIZE)]

\* the root proof of the extended ledger, the generator going on where it stopped
ExtendedRoot(k) ==
    prove_global(Extended(ledger, k), account_nonces \o draw_nonces(rng, k * BATCH_SIZE))

\* C19: the ledger extended by k * BATCH_SIZE all-zero accounts is proved with
\* the same per-asset totals as the ledger itself
C19_PaddingIdempotence ==
    pc = "done" =>
        /\ prove_global(ledger, account_nonces) = root_proof
        /\ \A k \in 1..MaxExtraBatches :
             /\ ExtendedRoot(k) # None
             /\ Totals(unwrap(ExtendedRoot(k))) = Totals(unwrap(root_proof))

\* an extension that needs one recursive level more than the ledger, and one
\* that only fills padding nodes
C19_Witness ==
    /\ pc = "done"
    /\ \E k \in 1..MaxExtraBatches :
         recursive_circuits_in(unwrap(ExtendedRoot(k)).circuit)
             > recursive_circuits_in(unwrap(root_proof).circuit)
    /\ \E k \in 1..MaxExtraBatches :
         /\ unwrap(ExtendedRoot(k)).circuit = unwrap(root_proof).circuit
         /\ unwrap(ExtendedRoot(k)) # unwrap(root_proof)



\* ---- price agreement ----

Prices(proof) == Slice(proof.public_inputs, get_asset_prices_offset(asset_count_of(ledger)))

LedgerPrices == [i \in 1..asset_count_of(ledger) |-> from_canonical_u64(ledger.asset_prices[i])]

\* the padded inner proofs of the running level, in chunks of RECURSIVE_SIZE
InnerChunks == Chunks(frame.inner_proofs, RECURSIVE_SIZE)

\* C20: the inner proofs of every chunk, real or padding, carry the same prices,
\* the ledger's; every recursive proof carries the prices of each of its inner
\* proofs; the root proof carries the ledger's prices
C20_PriceAgreement ==
    /\ pc \in { "rec_prove", "rec_register", "rec_write" } =>
          \A j \in 1..Len(InnerChunks) : \A k \in 1..Len(InnerChunks[j]) :
              /\ Prices(InnerChunks[j][k]) = Prices(InnerChunks[j][1])
              /\ Prices(InnerChunks[j][k]) = LedgerPrices
    /\ pc \in { "rec_register", "rec_write" } =>
          /\ Len(frame.recursive_proofs) = Len(InnerChunks)
          /\ \A j \in 1..Len(InnerChunks) : \A k \in 1..Len(InnerChunks[j]) :
                Prices(frame.recursive_proofs[j]) = Prices(InnerChunks[j][k])
    /\ pc = "done" =>
          /\ Prices(unwrap(root_proof)) = LedgerPrices
          /\ Prices(unwrap(final_proof).proof) = LedgerPrices

\* a recursive proof over a chunk holding a real batch proof and a padding proof
C20_Witness ==
    /\ pc = "rec_register"
    /\ frame.inner_circuit_digest = None
    /\ Len(batch_proofs) % RECURSIVE_SIZE # 0
    /\ Len(frame.inner_proofs) > Len(batch_proofs)
    /\ frame.inner_proofs[Len(batch_proofs)] # frame.inner_proofs[Len(batch_proofs) + 1]
    /\ \E i \in 1..asset_count_of(ledger) : LedgerPrices[i] # 0

\* ---- hashes of the finished tree ----

\* the nodes added as padding at depth d: nodes above the leaves without children
PaddingPlaces(tree, d) ==
    { q \in { get_nodes_from_depth(tree, d)[k] : k \in 1..Len(get_nodes_from_depth(tree, d)) } :
        node_at(tree.root, q).children = None }

\* the cached empty proof of the circuit whose proofs hash the nodes of depth d
LevelEmptyProof(tree, d) ==
    IF d = tree.depth - 1
    THEN Some(unwrap(circuit_registry).batch_circuit.empty_proof)
    ELSE LET found == get_recursive_circuit_by_depth(unwrap(circuit_registry), d)
         IN IF found = {}
            THEN None
            ELSE unwrap(circuit_registry).recursive_circuits[CHOOSE i \in found : TRUE].empty_proof

\* C21: in the tree prove_global returns every node has a hash, and each
\* padding node's hash is the root hash of the cached empty proof of the
\* circuit of its level
C21_AllNodesHashed ==
    pc = "done" =>
        LET tree == unwrap(merkle_tree)
        IN /\ \A q \in AllPlaces(tree) : node_at(tree.root, q).hash # None
           /\ \A d \in 2..(tree.depth - 1) : \A q \in PaddingPlaces(tree, d) :
                 /\ LevelEmptyProof(tree, d) # None
                 /\ node_at(tree.root, q).hash
                      = Some(pis_to_hash_bytes(Slice(unwrap(LevelEmptyProof(tree, d)).public_inputs,
                                 get_root_hash_offset(asset_count_of(ledger)))))

\* a finished tree with a padding node at the batch level and one above it
C21_Witness ==
    /\ pc = "done"
    /\ PaddingPlaces(unwrap(merkle_tree), unwrap(merkle_tree).depth - 1) # {}
    /\ \E d \in 2..(unwrap(merkle_tree).depth - 2) : PaddingPlaces(unwrap(merkle_tree), d) # {}

\* ---- order of the tree writes ----

HashAt(tree, d, k) == node_at(tree.root, get_nodes_from_depth(tree, d)[k]).hash

\* the positions of depth d whose hash this step writes
Written(d) ==
    { k \in 1..Len(get_nodes_from_depth(unwrap(merkle_tree), d)) :
        HashAt(unwrap(merkle_tree)', d, k) # HashAt(unwrap(merkle_tree), d, k) }

\* the positions of depth d that have a hash before the step
Hashed(d) ==
    { k \in 1..Len(get_nodes_from_depth(unwrap(merkle_tree), d)) :
        HashAt(unwrap(merkle_tree), d, k) # None }

\* the nodes of depth d that stand for a proof of their own, not for padding
RealCount(d) ==
    Cardinality({ k \in 1..Len(get_nodes_from_depth(unwrap(merkle_tree), d)) :
        node_at(unwrap(merkle_tree).root,
                get_nodes_from_depth(unwrap(merkle_tree), d)[k]).children # None })

\* the proofs of depth d at this step: the batch proofs with their padding,
\* the recursive proofs of the running level, or the padded inner proofs of
\* the level that has just been entered
ProofsOfDepth(d) ==
    IF d = unwrap(merkle_tree).depth - 1
    THEN pad_recursive_proofs(batch_proofs, unwrap(circuit_registry).batch_circuit.empty_proof)
    ELSE IF frame.merkle_depth = Some(d) /\ pc = "rec_write"
         THEN frame.recursive_proofs
         ELSE IF frame'.merkle_depth = Some(d - 1)
              THEN frame'.inner_proofs
              ELSE <<>>

RootHashOf(proof) ==
    pis_to_hash_bytes(Slice(proof.public_inputs, get_root_hash_offset(asset_count_of(ledger))))

\* every hash written at depth d is the root hash of the proof at its position
WritesFromProofs(d) ==
    \A k \in Written(d) :
        /\ k <= Len(ProofsOfDepth(d))
        /\ HashAt(unwrap(merkle_tree)', d, k) = Some(RootHashOf(ProofsOfDepth(d)[k]))

TreeStep == merkle_tree # None /\ merkle_tree' # None /\ merkle_tree' # merkle_tree

\* C22 as stated: the hashes of a depth are written after all its proofs exist
\* and in one single pass from index 0, node k getting the root hash of proof k
C22_SinglePass ==
    [][TreeStep =>
         \A d \in 1..(unwrap(merkle_tree).depth - 1) :
             Written(d) # {} =>
                 /\ Hashed(d) = {}
                 /\ 1..RealCount(d) \subseteq Written(d)
                 /\ WritesFromProofs(d)]_vars

\* C22: the nodes of a depth that stand for proofs are written in one pass from
\* index 0 once all proofs of the depth exist, node k getting the root hash of
\* proof k; the padding nodes of a recursive level are written in a second
\* pass, when the next level is entered, from the padded proofs at their positions
C22_PassPerLevelThenPadding ==
    [][TreeStep =>
         \A d \in 1..(unwrap(merkle_tree).depth - 1) :
             Written(d) # {} =>
                 /\ Written(d) \cap Hashed(d) = {}
                 /\ WritesFromProofs(d)
                 /\ \/ /\ Hashed(d) = {}
                       /\ 1..RealCount(d) \subseteq Written(d)
                    \/ /\ Hashed(d) = 1..RealCount(d)
                       /\ Written(d) = (RealCount(d) + 1)..Len(get_nodes_from_depth(unwrap(merkle_tree), d))
                       /\ frame'.merkle_depth = Some(d - 1)]_vars

\* a level whose real nodes have been written and whose padding node has not
C22_Witness ==
    /\ pc = "rec_enter"
    /\ frame.merkle_depth # None
    /\ unwrap(frame.merkle_depth) >= 1
    /\ \E k \in 1..Len(get_nodes_from_depth(unwrap(merkle_tree), unwrap(frame.merkle_depth) + 1)) :
         /\ HashAt(unwrap(merkle_tree), unwrap(frame.merkle_depth) + 1, k) = None
         /\ HashAt(unwrap(merkle_tree), unwrap(frame.merkle_depth) + 1, 1) # None

\* ---- the levels of prove_recursively ----

CeilDiv(n, m) == (n + m - 1) \div m

\* one step of prove_recursively keeps the level arithmetic
LevelStep ==
    /\ pc = "rec_enter" /\ pc' = "rec_prove" =>
          /\ Len(frame'.inner_proofs) = RECURSIVE_SIZE * CeilDiv(Len(frame.inner_proofs), RECURSIVE_SIZE)
          /\ frame.merkle_depth = None => frame'.merkle_depth = Some(unwrap(merkle_tree).depth - 2)
          /\ frame.merkle_depth # None => frame'.merkle_depth = frame.merkle_depth
          /\ unwrap(frame'.merkle_depth) >= 1
    /\ pc = "rec_prove" /\ pc' = "rec_register" =>
          Len(frame'.recursive_proofs) * RECURSIVE_SIZE = Len(frame.inner_proofs)
    /\ pc = "rec_write" /\ pc' = "rec_enter" =>
          /\ Len(frame.recursive_proofs) > 1
          /\ frame'.inner_proofs = frame.recursive_proofs
          /\ frame'.merkle_depth = Some(unwrap(frame.merkle_depth) - 1)
    /\ pc = "rec_write" /\ pc' = "assemble" =>
          /\ Len(frame.recursive_proofs) = 1
          /\ frame.merkle_depth = Some(1)
          /\ Len(unwrap(circuit_registry).recursive_circuits) = unwrap(merkle_tree).depth - 2
    /\ pc \in { "rec_enter", "rec_prove", "rec_register", "rec_write" } => pc' # "panicked"

\* C23: prove_recursively ends with the root proof for every non-empty list of
\* batch proofs; each level turns n proofs into ceil(n / RECURSIVE_SIZE), the
\* recursion stops exactly at one proof, after D - 2 levels, and the Merkle
\* depth goes down by one per level from D - 2 to exactly 1
C23_RecursionTerminates ==
    /\ [][LevelStep]_vars
    /\ (pc = "rec_enter" /\ frame.inner_proofs # <<>>) ~> (pc = "assemble")

\* the root proof of a tree with three recursive levels
C23_Witness ==
    /\ pc = "assemble"
    /\ unwrap(merkle_tree).depth = 5
    /\ frame.merkle_depth = Some(1)

\* ---- lookups of empty proofs ----

\* the digest prove_recursively looks the inner circuit up with
InnerDigest ==
    IF frame.inner_circuit_digest = None
    THEN get_batch_circuit(unwrap(circuit_registry))
    ELSE unwrap(frame.inner_circuit_digest)

\* the registered circuits without an empty proof
NoEmptyProof ==
    LET entries == unwrap(circuit_registry).recursive_circuits
    IN { entries[i].circuit : i \in { j \in 1..Len(entries) : entries[j].empty_proof = None } }

\* C25: every get_empty_proof(inner digest), by prove_recursively for the
\* padding and by prove_empty while a circuit is registered, finds a cached
\* proof of the inner circuit; the circuit of depth 1 has none and is never inner
C25_EmptyProofsAvailable ==
    /\ pc = "rec_enter" =>
          LET found == get_empty_proof(unwrap(circuit_registry), InnerDigest)
          IN /\ found # None
             /\ unwrap(found).circuit = InnerDigest
             /\ InnerDigest \notin NoEmptyProof
    /\ pc = "rec_register" /\ frame.merkle_depth # Some(1) =>
          LET circuit == unwrap(frame.recursive_circuit)
              found == get_empty_proof(unwrap(circuit_registry), unwrap(circuit.inner))
          IN /\ found # None
             /\ unwrap(found).circuit = unwrap(circuit.inner)
    /\ circuit_registry # None =>
          LET entries == unwrap(circuit_registry).recursive_circuits
          IN \A i \in 1..Len(entries) :
                /\ entries[i].empty_proof = None <=> entries[i].depth = 1
                /\ unwrap(entries[i].circuit.inner) \notin NoEmptyProof

\* a level above the first recursive one is registered: prove_empty looks up
\* the empty proof of a recursive inner circuit
C25_Witness ==
    /\ pc = "rec_register"
    /\ frame.merkle_depth = Some(2)
    /\ unwrap(frame.recursive_circuit).inner # Some(get_batch_circuit(unwrap(circuit_registry)))

\* ---- nonces and leaves ----

\* C26: the nonces prove_global returns are as many as the padded accounts,
\* leaf i of the tree carries hash_account of account i with nonce i, and the
\* nonces are the generator's draws in ledger order
C26_NonceCorrespondence ==
    pc = "done" =>
        LET tree == unwrap(merkle_tree)
            n == Len(ledger.account_balances)
        IN /\ n % BATCH_SIZE = 0
           /\ Len(account_nonces) = n
           /\ Len(get_nodes_from_depth(tree, tree.depth)) = n
           /\ \A i \in 1..n :
                 HashAt(tree, tree.depth, i)
                     = Some(hash_account(ledger.account_balances[i], ledger.hashes[i],
                                         account_nonces[i]))
           /\ \E seed \in SeedSet : account_nonces = draw_nonces(seed, n)

\* several batches, the last account a padding account, the nonces not all equal
C26_Witness ==
    /\ pc = "done"
    /\ Len(account_nonces) >= 2 * BATCH_SIZE
    /\ ledger.account_balances[Len(ledger.account_balances)] = Repeat(0, asset_count_of(ledger))
    /\ account_nonces[1] # account_nonces[2]

\* ---- the sign gadgets ----

\* C27: is_negative(x) is true exactly for x in half+1 .. p-1, false for x in
\* 0 .. half, and is_positive(x) is its negation
C27_SignGadget ==
    sign # None =>
        LET s == unwrap(sign)
        IN /\ s.x > half => s.is_negative = 1
           /\ s.x <= half => s.is_negative = 0
           /\ s.is_positive = 1 - s.is_negative

\* ---- the padding of a level ----

\* the smallest power of b that is at least n
RECURSIVE NextPower(_, _, _)
NextPower(b, n, p) == IF p >= n THEN p ELSE NextPower(b, n, p * b)

\* the smallest multiple of b that is at least n
NextMultiple(b, n) == b * CeilDiv(n, b)

\* the nodes of depth d are the nodes with children followed by empty nodes,
\* padded(real) of them in all, and the prover pads the proofs of that depth
\* to the same number
LevelPadded(d, padded(_)) ==
    LET tree == unwrap(merkle_tree)
        nodes == get_nodes_from_depth(tree, d)
    IN /\ Len(nodes) = padded(RealCount(d))
       /\ \A k \in 1..Len(nodes) :
             k > RealCount(d) =>
                 /\ node_at(tree.root, nodes[k]).children = None
                 /\ pc = "populate" => node_at(tree.root, nodes[k]).hash = None
       /\ pc = "rec_prove" /\ frame.merkle_depth = Some(d - 1) =>
             Len(frame.inner_proofs) = Len(nodes)

\* the levels that are grouped into chunks of RECURSIVE_SIZE
ChunkedLevels == 2..(unwrap(merkle_tree).depth - 1)

\* C28 as stated: every chunked level is padded up to the next power of
\* RECURSIVE_SIZE, and the prover pads the level's proofs to the same count
C28_PaddedToPower ==
    merkle_tree # None /\ Len(ledger.account_balances) > BATCH_SIZE =>
        \A d \in ChunkedLevels :
            LevelPadded(d, LAMBDA real : NextPower(RECURSIVE_SIZE, real, 1))

\* C28 (amended): every chunked level is padded up to the next multiple of
\* RECURSIVE_SIZE, and the prover pads the level's proofs to the same count
C28_PaddedToMultiple ==
    merkle_tree # None /\ Len(ledger.account_balances) > BATCH_SIZE =>
        \A d \in ChunkedLevels :
            LevelPadded(d, LAMBDA real : NextMultiple(RECURSIVE_SIZE, real))

\* five batches: six nodes at the batch level, six inner proofs
C28_Witness ==
    /\ pc = "rec_prove"
    /\ frame.merkle_depth = Some(unwrap(merkle_tree).depth - 2)
    /\ RealCount(unwrap(merkle_tree).depth - 1) = 5
    /\ Len(frame.inner_proofs) = 6

\* ---- batched inclusion ----

\* the groups that hold index i
GroupsOf(i) ==
    { p \in DOMAIN unwrap(batched).groups :
        \E k \in 1..Len(unwrap(batched).groups[p]) : unwrap(batched).groups[p][k] = i }

\* every index is in exactly one group, the one of its prefix
EveryIndexGrouped ==
    \A i \in 0..(Len(ledger_file.hashes) - 1) :
        GroupsOf(i) = { prefix_of(ledger_file.hashes[i + 1]) }

\* no two tasks write the same path at the same time, and a file is the
\* bundle of the group of its name
DistinctPaths ==
    LET b == unwrap(batched)
    IN /\ \A p, q \in DOMAIN b.groups :
             b.task[p] = "writing" /\ b.task[q] = "writing" /\ p # q =>
                 bundle_filename(p) # bundle_filename(q)
       /\ \A f \in b.files : \E p \in DOMAIN b.groups :
             /\ f.path = bundle_filename(p)
             /\ b.task[p] \in { "written", "counted", "finished" }
             /\ f.content.map = unwrap(b.bundle[p])

\* the file of group p
FileOf(p) == CHOOSE f \in unwrap(batched).files : f.path = bundle_filename(p)

\* the proof built from index i and nonces[i]
OwnProof(i) ==
    unwrap(prove_user_inclusion(i, ledger_file.hashes[i + 1], account_nonces[i + 1],
                                unwrap(merkle_tree), ledger_file).proof)

\* the written bundle of a group maps the userhash of every index of the
\* group to the proof built from that index
BundlesHoldOwnProofs ==
    LET b == unwrap(batched)
    IN \A p \in DOMAIN b.groups :
          b.task[p] \in { "written", "counted", "finished" } =>
              /\ \E f \in b.files : f.path = bundle_filename(p)
              /\ \A k \in 1..Len(b.groups[p]) :
                    LET i == b.groups[p][k]
                    IN /\ ledger_file.hashes[i + 1] \in DOMAIN FileOf(p).content.map
                       /\ FileOf(p).content.map[ledger_file.hashes[i + 1]] = OwnProof(i)

\* on success the counters are the number of groups and of hashes
CountersComplete ==
    unwrap(batched).pc = "ok" =>
        /\ unwrap(batched).processed_groups = Cardinality(DOMAIN unwrap(batched).groups)
        /\ unwrap(batched).processed_hashes = Len(ledger_file.hashes)

InLedger(hash) == \E i \in 1..Len(ledger_file.hashes) : ledger_file.hashes[i] = hash

\* the proof the daemon builds for a userhash of the ledger
ProofByHash(hash) ==
    unwrap(prove_user_inclusion_by_hash(hash, unwrap(merkle_tree), account_nonces,
                                        ledger_file).proof)

\* connection c: the replies answer the requests in order, one reply per
\* served request, each after its proof file was written; the first request
\* that fails has no reply and ends the handler and the connection
ConnectionServed(c) ==
    LET k == unwrap(daemon).conn[c]
    IN /\ Len(k.replies) <= k.read /\ k.read <= Len(k.sent)
       /\ k.at = "read" => Len(k.replies) = k.read
       /\ k.at \in { "write_file", "reply" } => Len(k.replies) = k.read - 1
       /\ \A j \in 1..Len(k.replies) :
             /\ InLedger(k.sent[j])
             /\ k.replies[j] = proof_path(k.sent[j])
             /\ \E f \in unwrap(daemon).files :
                   f.path = k.replies[j] /\ f.content = ProofByHash(k.sent[j])
       /\ \A j \in 1..k.read :
             ~InLedger(k.sent[j]) =>
                 /\ j = k.read
                 /\ Len(k.replies) = j - 1
                 /\ k.state = "closed" /\ k.at = "ended" /\ k.ended_by = "error"

\* the end of one handler leaves the listener and the other connections alone
OthersUntouched ==
    daemon # None /\ daemon' # None =>
        \A c \in Conns :
            unwrap(daemon).conn[c].state = "open" /\ unwrap(daemon').conn[c].state = "closed" =>
                /\ unwrap(daemon').listening
                /\ \A other \in Conns \ { c } :
                      unwrap(daemon').conn[other] = unwrap(daemon).conn[other]

\* the j-th request of connection c and all before it name users of the ledger
Answerable(c, j) ==
    /\ daemon # None
    /\ Len(unwrap(daemon).conn[c].sent) >= j
    /\ \A i \in 1..j : InLedger(unwrap(daemon).conn[c].sent[i])

\* it has its reply, or its write failed or the client went away
AnsweredOrLost(c, j) ==
    /\ daemon # None
    /\ \/ Len(unwrap(daemon).conn[c].replies) >= j
       \/ unwrap(daemon).conn[c].ended_by = "io"
       \/ unwrap(daemon).conn[c].client_closed

\* C30: on a connection the requests are served in order, a request for a
\* userhash of the ledger gets exactly one reply, after its proof file was
\* written; the first failing request gets none, its handler ends and the
\* connection is closed; the listener goes on accepting and the other
\* connections are served
C30_DaemonProtocol ==
    /\ [](daemon # None => unwrap(daemon).listening /\ \A c \in Conns : ConnectionServed(c))
    /\ [][OthersUntouched]_vars
    /\ \A c \in Conns :
          /\ (daemon # None) ~> (daemon # None /\ unwrap(daemon).conn[c].state # "idle")
          /\ \A j \in 1..MaxRequests : Answerable(c, j) ~> AnsweredOrLost(c, j)

\* one connection has ended on an unknown userhash after one reply, the
\* other has been answered
C30_Witness ==
    /\ daemon # None
    /\ unwrap(daemon).conn["a"].ended_by = "error"
    /\ Len(unwrap(daemon).conn["a"].replies) = 1
    /\ Len(unwrap(daemon).conn["b"].replies) = 1
    /\ unwrap(daemon).conn["b"].state = "open"

====
